---- MODULE Spec2Model ----
(***************************************************************************)
(* Transcript ingestion and retrieval core of channel-chat: caption        *)
(* parsing, rolling-caption deduplication, normalisation, token-bounded    *)
(* chunking, and search-result ranking.                                    *)
(*                                                                         *)
(* Conventions.  A text is a sequence of one-character strings.  Times     *)
(* are integers counting tenths of a second, so the normaliser's 0.1 s is  *)
(* one unit.  Each component has its own specification (SpecChunk,         *)
(* SpecDedup, ...) over the variables of that component; the variables of  *)
(* the other components stay at their idle values.                         *)
(***************************************************************************)
EXTENDS Integers, Sequences, FiniteSets, TLC

VARIABLES
    \* chunkTranscript (src/src/cli.ts)
    segments, targetTokens, overlapPct, chunks, seq,
    currentSegments, currentTokenCount, overlapSegments, overlapTokenCount,
    i, pcChunk,
    \* deduplicateVttSegments (src/src/transcriber.ts): input, output, output of a re-run
    dedupIn, dedupOnce, dedupTwice, pcDedup,
    \* normalizeSegments (src/src/transcriber.ts): arguments and result
    normIn, minDuration, mergeThreshold, normOut, pcNorm,
    \* parseVttTimestamp / parseSrtTimestamp: argument, grammar and outcome
    tsIn, tsFormat, tsOut, pcTs,
    \* parseVtt / parseSrt: the file's lines, its grammar and the outcome
    fileLines, fileFormat, parseOut, pcParse,
    \* indexVideoLocal / indexVideoCloudflare: one ingestion job
    jobTarget, hasSubtitles, hasApiKey, sttResult, jobSegments, stagesRun,
    jobResult, pcJob,
    \* search / searchTranscripts: the indexed candidates (the distance of each
    \* chunk to the query, by chunk id), the call and its result list
    candidates, searchBackend, searchLimit, searchResults, pcSearch,
    \* the display text of a ranked result: the chunk's title and segment
    \* texts, the stored chunk text, the backend and the text shown
    dispTitle, dispSegTexts, dispStored, dispBackend, dispText, pcDisp,
    \* embedText / embedBatch (src/src/embedder.ts) and their caller: the
    \* request, the retry loop, the provider errors met and the delays slept
    \* for the current provider request, and the outcome
    embKind, embHasKey, embTexts, batchSize, batchIdx, attempt, allEmbeddings,
    embErrors, embSleeps, embThrown, embStored, embJobResult, pcEmb,
    \* the add command and runWithConcurrency (src/src/transcriber.ts): the
    \* option, the number of items, the shared index, the workers, the results
    \* and how often fn was called per item
    concurrencyOption, concurrency, items, currentIndex, workers, results, fnCalls, pcPool,
    \* the Cloudflare Worker's stores (src/cloudflare/src/index.ts): D1
    \* channels, videos and chunks, the chunk id counter, the Vectorize index,
    \* the R2 bucket, and the last request with its answer
    d1Channels, d1Videos, d1Chunks, nextChunkId, vectors, r2Objects, lastRequest,
    \* Worker: the JSON-RPC request posted to /mcp and its response
    mcpBody, mcpToolThrows, mcpResponse,
    \* search over the local SQLite store and the Worker's stores: schema objects, chunk rows, outcome
    localSchema, localRows, lastSearch,
    \* parseSubtitles (src/src/transcriber.ts): file name, content lines, outcome
    sniffPath, sniffContent, sniffOut, pcSniff,
    \* formatTimestamp: seconds (in tenths), rendered text
    fmtIn, fmtOut, pcFmt,
    \* Worker: env.API_KEY and the Authorization header of the request being routed
    apiKey, authHeader

chunkVars == << segments, targetTokens, overlapPct, chunks, seq,
                currentSegments, currentTokenCount, overlapSegments,
                overlapTokenCount, i, pcChunk >>

dedupVars == << dedupIn, dedupOnce, dedupTwice, pcDedup >>

normVars == << normIn, minDuration, mergeThreshold, normOut, pcNorm >>

tsVars == << tsIn, tsFormat, tsOut, pcTs >>

parseVars == << fileLines, fileFormat, parseOut, pcParse >>

jobVars == << jobTarget, hasSubtitles, hasApiKey, sttResult, jobSegments,
        stagesRun,
             jobResult, pcJob >>

searchVars == << candidates, searchBackend, searchLimit, searchResults,
        pcSearch >>

displayVars == << dispTitle, dispSegTexts, dispStored, dispBackend, dispText,
        pcDisp >>

embedVars == << embKind, embHasKey, embTexts, batchSize, batchIdx, attempt,
        allEmbeddings,
               embErrors, embSleeps, embThrown, embStored, embJobResult, pcEmb >>

poolVars == << concurrencyOption, concurrency, items, currentIndex, workers,
               results, fnCalls, pcPool >>

storeVars == << d1Channels, d1Videos, d1Chunks, nextChunkId, vectors,
                r2Objects, lastRequest >>

mcpVars == << mcpBody, mcpToolThrows, mcpResponse >>

readVars == << localSchema, localRows, lastSearch >>

sniffVars == << sniffPath, sniffContent, sniffOut, pcSniff >>

fmtVars == << fmtIn, fmtOut, pcFmt >>

authVars == << apiKey, authHeader >>

vars == << chunkVars, dedupVars, normVars, tsVars, parseVars, jobVars,
           searchVars, displayVars, embedVars, poolVars, storeVars, mcpVars, readVars, sniffVars, fmtVars, authVars >>

\* what a step of one component leaves alone: the other components
ChunkFrame == UNCHANGED << dedupVars, normVars, tsVars, parseVars, jobVars,
                           searchVars, displayVars, embedVars, poolVars,
                           storeVars, mcpVars, readVars, sniffVars, fmtVars, authVars >>

DedupFrame == UNCHANGED << chunkVars, normVars, tsVars, parseVars, jobVars,
                           searchVars, displayVars, embedVars, poolVars,
                           storeVars, mcpVars, readVars, sniffVars, fmtVars, authVars >>

NormFrame == UNCHANGED << chunkVars, dedupVars, tsVars, parseVars, jobVars,
                          searchVars, displayVars, embedVars, poolVars,
                          storeVars, mcpVars, readVars, sniffVars, fmtVars, authVars >>

TsFrame == UNCHANGED << chunkVars, dedupVars, normVars, parseVars, jobVars,
                        searchVars, displayVars, embedVars, poolVars,
                        storeVars, mcpVars, readVars, sniffVars, fmtVars, authVars >>

ParseFrame == UNCHANGED << chunkVars, dedupVars, normVars, tsVars, jobVars,
                           searchVars, displayVars, embedVars, poolVars,
                           storeVars, mcpVars, readVars, sniffVars, fmtVars, authVars >>

JobFrame == UNCHANGED << dedupVars, normVars, tsVars, searchVars,
                         displayVars, embedVars, poolVars, storeVars, mcpVars, readVars, sniffVars, fmtVars, authVars >>

SearchFrame == UNCHANGED << chunkVars, dedupVars, normVars, tsVars,
                            parseVars, jobVars, displayVars, embedVars,
                            poolVars, storeVars, mcpVars, readVars, sniffVars, fmtVars, authVars >>

DisplayFrame == UNCHANGED << chunkVars, dedupVars, normVars, tsVars,
                             parseVars, jobVars, searchVars, embedVars,
                             poolVars, storeVars, mcpVars, readVars, sniffVars, fmtVars, authVars >>

EmbedFrame == UNCHANGED << chunkVars, dedupVars, normVars, tsVars, parseVars,
                           jobVars, searchVars, displayVars, poolVars,
                           storeVars, mcpVars, readVars, sniffVars, fmtVars, authVars >>

PoolFrame == UNCHANGED << chunkVars, dedupVars, normVars, tsVars, parseVars,
                          jobVars, searchVars, displayVars, embedVars,
                          storeVars, mcpVars, readVars, sniffVars, fmtVars, authVars >>

StoreFrame == UNCHANGED << chunkVars, dedupVars, normVars, tsVars, parseVars,
                           jobVars, searchVars, displayVars, embedVars,
                           poolVars, mcpVars, readVars, sniffVars, fmtVars, authVars >>

McpFrame == UNCHANGED << chunkVars, dedupVars, normVars, tsVars, parseVars,
        jobVars, searchVars, displayVars, embedVars, poolVars, storeVars, readVars, sniffVars, fmtVars, authVars >>

ReadFrame == UNCHANGED << chunkVars, dedupVars, normVars, tsVars, parseVars,
                         jobVars,
                         searchVars, displayVars, embedVars, poolVars, mcpVars, sniffVars, fmtVars, authVars >>

SniffFrame == UNCHANGED << chunkVars, dedupVars, normVars, tsVars, parseVars,
                         jobVars, searchVars, displayVars, embedVars,
                         poolVars, storeVars, mcpVars, readVars, fmtVars,
                         authVars >>

FmtFrame == UNCHANGED << chunkVars, dedupVars, normVars, tsVars, parseVars,
                         jobVars, searchVars, displayVars, embedVars,
                         poolVars, storeVars, mcpVars, readVars, sniffVars,
                         authVars >>

AuthFrame == UNCHANGED << chunkVars, dedupVars, normVars, tsVars, parseVars,
                         jobVars,
                         searchVars, displayVars, embedVars, poolVars, mcpVars,
                         readVars, sniffVars, fmtVars >>

----------------------------------------------------------------------------
(* Bounds of the model *)

MaxSegs == 4
MaxTok == 4
MaxTarget == 3
MaxDedupSegs == 3
MaxNormSegs == 2
MaxMergeSegs == 3
MaxTime == 2
MaxTsLen == 4
MaxLines == 5
MaxJobLines == 3
MaxWords == 2
MaxCandidates == 3
MaxTitleLen == 2
MaxDisplaySegs == 2
MaxEmbTexts == 3
MaxBatchSize == 2
MaxVideos == 3
MaxConcurrency == 3
MaxChunkId == 3
MaxRequestChunks == 2

MaxLocalRows == 2

MaxSniffLines == 3

MaxFmtOffset == 2

MaxAuthChunkId == 1

(* Program constants *)

DefaultTargetTokens == 800
DefaultOverlapPct == 15
DefaultMinDuration == 5
DefaultMergeThreshold == 10
TenthOfSecond == 1
ScoreOne == 100
MAX_RETRIES == 3
RETRY_DELAY == 1000

----------------------------------------------------------------------------
(* Generic helpers *)

SeqUpTo(S, n) == UNION { [1..k -> S] : k \in 0..n }

Last(s) == s[Len(s)]

IsPrefix(p, s) == Len(p) <= Len(s) /\ SubSeq(s, 1, Len(p)) = p

----------------------------------------------------------------------------
(* JavaScript string operations on texts *)

RECURSIVE TrimStart(_)
TrimStart(s) == IF s # <<>> /\ Head(s) = " " THEN TrimStart(Tail(s)) ELSE s

RECURSIVE TrimEnd(_)
TrimEnd(s) == IF s # <<>> /\ Last(s) = " " THEN TrimEnd(SubSeq(s, 1, Len(s) - 1)) ELSE s

\* String.prototype.trim
Trim(s) == TrimEnd(TrimStart(s))

\* String.prototype.startsWith
StartsWith(s, p) == IsPrefix(p, s)

\* String.prototype.indexOf: the first 0-based position of p in s, or -1
IndexOf(s, p) ==
    LET at == { k \in 0..(Len(s) - Len(p)) : SubSeq(s, k + 1, k + Len(p)) = p } IN
    IF at = {} THEN -1 ELSE CHOOSE k \in at : \A m \in at : k <= m

\* String.prototype.includes
Includes(s, p) == IndexOf(s, p) >= 0

\* String.prototype.slice(n) for 0 <= n
Slice(s, n) == SubSeq(s, n + 1, Len(s))

\* the texts over an alphabet, up to a length
TextsUpTo(alphabet, n) == UNION { [1..k -> alphabet] : k \in 0..n }

----------------------------------------------------------------------------
(* Token-bounded chunker: chunkTranscript                                   *)
(*                                                                          *)
(* A segment's text is a sequence of words and the tokenizer counts one     *)
(* token per word.  currentSegments and overlapSegments hold indices into   *)
(* `segments` (the code holds references to the same segment objects).  A   *)
(* chunk records, beside the code's four fields, the indices of the         *)
(* segments whose texts were joined into its text.                          *)

countTokens(text) == Len(text)

segTokens(k) == countTokens(segments[k].text)

videoTitle == <<"T">>

\* `${videoTitle} | ${combinedText}` with combinedText = texts joined by ' '
RECURSIVE JoinTexts(_)
JoinTexts(ts) ==
    IF ts = <<>> THEN <<>>
    ELSE IF Len(ts) = 1 THEN Head(ts)
    ELSE Head(ts) \o <<" ">> \o JoinTexts(Tail(ts))

ChunkTextOf(title, texts) == title \o <<" ", "|", " ">> \o JoinTexts(texts)

ChunkText(idx) == ChunkTextOf(videoTitle, [k \in 1..Len(idx) |-> segments[idx[k]].text])

MakeChunk(idx, n) ==
    [ text       |-> ChunkText(idx),
      start_time |-> segments[idx[1]].start_time,
      end_time   |-> segments[idx[Len(idx)]].end_time,
      seq        |-> n,
      segs       |-> idx ]

\* Math.floor(targetTokens * overlapPct), overlapPct given in percent
overlapTokens == (targetTokens * overlapPct) \div 100

\* The backward walk `for (let j = currentSegments.length - 1; j >= 0; j--)`:
\* the pair << overlapSegments, overlapTokenCount >> it leaves.
RECURSIVE OverlapWalk(_, _, _, _)
OverlapWalk(cur, j, acc, cnt) ==
    IF j = 0 THEN << acc, cnt >>
    ELSE LET t == segTokens(cur[j]) IN
         IF cnt + t <= overlapTokens
         THEN OverlapWalk(cur, j - 1, << cur[j] >> \o acc, cnt + t)
         ELSE IF acc = <<>> THEN << << cur[j] >>, t >>
              ELSE << acc, cnt >>

\* Mutant: the walk without the "include this segment if we have no overlap
\* yet" branch.
RECURSIVE OverlapWalkNoForce(_, _, _, _)
OverlapWalkNoForce(cur, j, acc, cnt) ==
    IF j = 0 THEN << acc, cnt >>
    ELSE LET t == segTokens(cur[j]) IN
         IF cnt + t <= overlapTokens
         THEN OverlapWalkNoForce(cur, j - 1, << cur[j] >> \o acc, cnt + t)
         ELSE << acc, cnt >>

OverlapCarryNoForce(cur) == OverlapWalkNoForce(cur, Len(cur), <<>>, 0)

OverlapCarry(cur) == OverlapWalk(cur, Len(cur), <<>>, 0)

\* Mutant: the oversized branch without its seq++
ChunkOversizedKeepSeq ==
    /\ ChunkFrame
    /\ pcChunk = "loop"
    /\ i <= Len(segments)
    /\ segTokens(i) > targetTokens
    /\ currentSegments = <<>>
    /\ chunks' = Append(chunks, MakeChunk(<< i >>, seq))
    /\ i' = i + 1
    /\ UNCHANGED << segments, targetTokens, overlapPct, seq, currentSegments,
                    currentTokenCount, overlapSegments, overlapTokenCount, pcChunk >>

\* if (segmentTokens > targetTokens && currentSegments.length === 0)
ChunkOversized ==
    /\ ChunkFrame
    /\ pcChunk = "loop"
    /\ i <= Len(segments)
    /\ segTokens(i) > targetTokens
    /\ currentSegments = <<>>
    /\ chunks' = Append(chunks, MakeChunk(<< i >>, seq))
    /\ seq' = seq + 1
    /\ i' = i + 1
    /\ UNCHANGED << segments, targetTokens, overlapPct, currentSegments,
                    currentTokenCount, overlapSegments, overlapTokenCount, pcChunk >>

\* if (currentTokenCount + segmentTokens > targetTokens && currentSegments.length > 0)
\* followed by the unconditional push of the segment
ChunkClose ==
    /\ ChunkFrame
    /\ pcChunk = "loop"
    /\ i <= Len(segments)
    /\ ~(segTokens(i) > targetTokens /\ currentSegments = <<>>)
    /\ currentTokenCount + segTokens(i) > targetTokens
    /\ Len(currentSegments) > 0
    /\ LET carry == OverlapCarry(currentSegments) IN
        /\ chunks' = Append(chunks, MakeChunk(currentSegments, seq))
        /\ seq' = seq + 1
        /\ overlapSegments' = carry[1]
        /\ overlapTokenCount' = carry[2]
        /\ currentSegments' = Append(carry[1], i)
        /\ currentTokenCount' = carry[2] + segTokens(i)
    /\ i' = i + 1
    /\ UNCHANGED << segments, targetTokens, overlapPct, pcChunk >>

\* neither branch taken: the segment is appended to the current chunk
ChunkAdd ==
    /\ ChunkFrame
    /\ pcChunk = "loop"
    /\ i <= Len(segments)
    /\ ~(segTokens(i) > targetTokens /\ currentSegments = <<>>)
    /\ ~(currentTokenCount + segTokens(i) > targetTokens /\ Len(currentSegments) > 0)
    /\ currentSegments' = Append(currentSegments, i)
    /\ currentTokenCount' = currentTokenCount + segTokens(i)
    /\ i' = i + 1
    /\ UNCHANGED << segments, targetTokens, overlapPct, chunks, seq,
                    overlapSegments, overlapTokenCount, pcChunk >>

\* Mutant: the segments still held after the loop are not emitted
ChunkFinalNoEmit ==
    /\ ChunkFrame
    /\ pcChunk = "loop"
    /\ i > Len(segments)
    /\ pcChunk' = "done"
    /\ UNCHANGED << segments, targetTokens, overlapPct, chunks, seq, currentSegments,
                    currentTokenCount, overlapSegments, overlapTokenCount, i >>

\* after the loop (or on empty input): emit the final chunk if segments remain
ChunkFinal ==
    /\ ChunkFrame
    /\ pcChunk = "loop"
    /\ i > Len(segments)
    /\ chunks' = IF Len(currentSegments) > 0
                 THEN Append(chunks, MakeChunk(currentSegments, seq))
                 ELSE chunks
    /\ pcChunk' = "done"
    /\ UNCHANGED << segments, targetTokens, overlapPct, seq, currentSegments,
                    currentTokenCount, overlapSegments, overlapTokenCount, i >>

ChunkStart(segs, target, pct) ==
    /\ segments = segs
    /\ targetTokens = target
    /\ overlapPct = pct
    /\ chunks = <<>>
    /\ seq = 0
    /\ currentSegments = <<>>
    /\ currentTokenCount = 0
    /\ overlapSegments = <<>>
    /\ overlapTokenCount = 0
    /\ i = 1
    /\ pcChunk = "loop"

ChunkIdle ==
    /\ segments = <<>>
    /\ targetTokens = DefaultTargetTokens
    /\ overlapPct = DefaultOverlapPct
    /\ chunks = <<>>
    /\ seq = 0
    /\ currentSegments = <<>>
    /\ currentTokenCount = 0
    /\ overlapSegments = <<>>
    /\ overlapTokenCount = 0
    /\ i = 1
    /\ pcChunk = "idle"

\* Input segments: k-th segment has tok[k] words and a time slot of its own.
Words(n) == [w \in 1..n |-> "w"]

SegmentsOf(toks) ==
    [k \in 1..Len(toks) |->
        [text |-> Words(toks[k]), start_time |-> 10 * k, end_time |-> 10 * k + 5]]

TargetSet == 2..MaxTarget

PctSet == {0, DefaultOverlapPct, 50, 100}

----------------------------------------------------------------------------
(* Rolling-caption deduplicator: deduplicateVttSegments *)

\* the text a segment keeps, given the previous segment's original text
DedupNewText(text, prevText) ==
    IF prevText # <<>> /\ StartsWith(text, prevText)
    THEN Trim(Slice(text, Len(prevText)))
    ELSE IF prevText # <<>> /\ Includes(text, prevText)
    THEN Trim(Slice(text, IndexOf(text, prevText) + Len(prevText)))
    ELSE text

\* Mutant: prevText set to the emitted text instead of the original text
RECURSIVE DedupLoopPrevStripped(_, _, _, _)
DedupLoopPrevStripped(segs, k, prevText, result) ==
    IF k > Len(segs) THEN result
    ELSE LET newText == DedupNewText(segs[k].text, prevText) IN
         DedupLoopPrevStripped(segs, k + 1, newText,
             IF newText # <<>>
             THEN Append(result, [text |-> newText,
                                  start_time |-> segs[k].start_time,
                                  end_time |-> segs[k].end_time])
             ELSE result)

\* the `for (const segment of segments)` loop from segment k on
RECURSIVE DedupLoop(_, _, _, _)
DedupLoop(segs, k, prevText, result) ==
    IF k > Len(segs) THEN result
    ELSE LET newText == DedupNewText(segs[k].text, prevText) IN
         DedupLoop(segs, k + 1, segs[k].text,
             IF newText # <<>>
             THEN Append(result, [text |-> newText,
                                  start_time |-> segs[k].start_time,
                                  end_time |-> segs[k].end_time])
             ELSE result)

deduplicateVttSegments(segs) ==
    IF Len(segs) = 0 THEN <<>> ELSE DedupLoop(segs, 1, <<>>, <<>>)

DedupRun ==
    /\ DedupFrame
    /\ pcDedup = "input"
    /\ dedupOnce' = deduplicateVttSegments(dedupIn)
    /\ pcDedup' = "once"
    /\ UNCHANGED << dedupIn, dedupTwice >>

DedupRerun ==
    /\ DedupFrame
    /\ pcDedup = "once"
    /\ dedupTwice' = deduplicateVttSegments(dedupOnce)
    /\ pcDedup' = "twice"
    /\ UNCHANGED << dedupIn, dedupOnce >>

DedupIdle ==
    /\ dedupIn = <<>>
    /\ dedupOnce = <<>>
    /\ dedupTwice = <<>>
    /\ pcDedup = "idle"

\* Caption texts as the parser leaves them, trimmed and non-empty: one and
\* two words, texts that begin with, contain or repeat one another
CaptionTexts ==
    { << "a" >>, << "b" >>, << "a", "a" >>, << "a", "b" >>,
      << "a", " ", "a" >>, << "a", " ", "b" >>, << "b", " ", "a" >>,
      << "a", " ", "a", " ", "b" >>, << "a", " ", "b", " ", "a" >> }

TimedSegments(texts) ==
    [k \in 1..Len(texts) |->
        [text |-> texts[k], start_time |-> 10 * k, end_time |-> 10 * k + 5]]

----------------------------------------------------------------------------
(* Transcript normaliser: normalizeSegments and mergeShortSegments *)

IsWhitespace(c) == c \in {" ", "\t"}

\* text.replace(/\s+/g, ' '): every run of whitespace becomes one space
RECURSIVE CollapseWhitespace(_)
CollapseWhitespace(s) ==
    IF s = <<>> THEN <<>>
    ELSE IF IsWhitespace(Head(s))
    THEN IF Len(s) > 1 /\ IsWhitespace(s[2])
         THEN CollapseWhitespace(Tail(s))
         ELSE << " " >> \o CollapseWhitespace(Tail(s))
    ELSE << Head(s) >> \o CollapseWhitespace(Tail(s))

CleanText(text) == Trim(CollapseWhitespace(text))

\* "Ensure start_time < end_time": swap when reversed, add 0.1 s when equal
RepairTimes(text, startTime, endTime) ==
    IF startTime >= endTime
    THEN IF startTime > endTime
         THEN [text |-> text, start_time |-> endTime, end_time |-> startTime]
         ELSE [text |-> text, start_time |-> startTime, end_time |-> startTime + TenthOfSecond]
    ELSE [text |-> text, start_time |-> startTime, end_time |-> endTime]

\* the first loop of normalizeSegments, from segment k on
RECURSIVE CleanLoop(_, _, _)
CleanLoop(segs, k, normalized) ==
    IF k > Len(segs) THEN normalized
    ELSE LET text == CleanText(segs[k].text) IN
         IF text = <<>> THEN CleanLoop(segs, k + 1, normalized)
         ELSE CleanLoop(segs, k + 1,
                  Append(normalized, RepairTimes(text, segs[k].start_time, segs[k].end_time)))

\* Mutant: the loop without the final result.push(current)
RECURSIVE MergeLoopNoFinalPush(_, _, _, _, _, _)
MergeLoopNoFinalPush(segs, k, current, result, minDur, threshold) ==
    IF k > Len(segs) THEN result
    ELSE LET nextSeg == segs[k]
             currentDuration == current.end_time - current.start_time
             gap == nextSeg.start_time - current.end_time
         IN IF currentDuration < minDur /\ gap <= threshold
            THEN MergeLoopNoFinalPush(segs, k + 1,
                     [text |-> current.text \o << " " >> \o nextSeg.text,
                      start_time |-> current.start_time,
                      end_time |-> nextSeg.end_time],
                     result, minDur, threshold)
            ELSE MergeLoopNoFinalPush(segs, k + 1, nextSeg, Append(result, current),
                                      minDur, threshold)

\* Mutant: no merging at all
NoMerge(segs, minDur, threshold) == segs

\* the loop of mergeShortSegments, from segment k on
RECURSIVE MergeLoop(_, _, _, _, _, _)
MergeLoop(segs, k, current, result, minDur, threshold) ==
    IF k > Len(segs) THEN Append(result, current)
    ELSE LET nextSeg == segs[k]
             currentDuration == current.end_time - current.start_time
             gap == nextSeg.start_time - current.end_time
         IN IF currentDuration < minDur /\ gap <= threshold
            THEN MergeLoop(segs, k + 1,
                     [text |-> current.text \o << " " >> \o nextSeg.text,
                      start_time |-> current.start_time,
                      end_time |-> nextSeg.end_time],
                     result, minDur, threshold)
            ELSE MergeLoop(segs, k + 1, nextSeg, Append(result, current), minDur, threshold)

mergeShortSegments(segs, minDur, threshold) ==
    IF Len(segs) = 0 THEN <<>>
    ELSE MergeLoop(segs, 2, segs[1], <<>>, minDur, threshold)

normalizeSegments(segs, minDur, threshold) ==
    IF Len(segs) = 0 THEN <<>>
    ELSE LET normalized == CleanLoop(segs, 1, <<>>) IN
         IF minDur > 0 THEN mergeShortSegments(normalized, minDur, threshold)
         ELSE normalized

NormRun ==
    /\ NormFrame
    /\ pcNorm = "input"
    /\ normOut' = normalizeSegments(normIn, minDuration, mergeThreshold)
    /\ pcNorm' = "done"
    /\ UNCHANGED << normIn, minDuration, mergeThreshold >>

NormIdle ==
    /\ normIn = <<>>
    /\ minDuration = DefaultMinDuration
    /\ mergeThreshold = DefaultMergeThreshold
    /\ normOut = <<>>
    /\ pcNorm = "idle"

\* Raw segments: any text, any pair of times (reversed and equal ones too)
RawTexts == { << "a" >>, << " " >>, << "a", " ", "\t", "b", " " >> }

RawSegments ==
    [text : RawTexts, start_time : 0..MaxTime, end_time : 0..MaxTime]

MinDurationSet == {0, 2, DefaultMinDuration}

MergeThresholdSet == {0, DefaultMergeThreshold}

\* Segments for the merging pass: a blank one, and a clean and a ragged text
\* over five time pairs (tenths of a second): short, long, zero-length,
\* reversed, and short but far from the first
MergeTimePairs == { << 0, 2 >>, << 2, 10 >>, << 4, 4 >>, << 30, 10 >>, << 40, 42 >> }

MergeSegments ==
    { [text |-> << " " >>, start_time |-> 0, end_time |-> 2] }
    \cup { [text |-> t, start_time |-> p[1], end_time |-> p[2]] :
             t \in { << "a" >>, << "b", " ", "\t", "c", " " >> },
             p \in MergeTimePairs }

----------------------------------------------------------------------------
(* Timestamp parsing: parseVttTimestamp and parseSrtTimestamp               *)
(*                                                                          *)
(* A parsed time counts tenths of a second (fraction digits after the first *)
(* are dropped).  NaN stands for JavaScript's NaN; arithmetic with it gives *)
(* NaN.                                                                     *)

NaN == -1

IsNaN(v) == v = NaN

Digits == {"0", "1", "2", "3", "4", "5", "6", "7", "8", "9"}

DigitVal(c) ==
    CASE c = "0" -> 0 [] c = "1" -> 1 [] c = "2" -> 2 [] c = "3" -> 3 [] c = "4" -> 4
      [] c = "5" -> 5 [] c = "6" -> 6 [] c = "7" -> 7 [] c = "8" -> 8 [] c = "9" -> 9

\* String.prototype.split(sep) for a one-character separator
RECURSIVE SplitOn(_, _)
SplitOn(s, sep) ==
    LET at == { k \in 1..Len(s) : s[k] = sep } IN
    IF at = {} THEN << s >>
    ELSE LET k == CHOOSE x \in at : \A y \in at : x <= y IN
         << SubSeq(s, 1, k - 1) >> \o SplitOn(SubSeq(s, k + 1, Len(s)), sep)

\* String.prototype.replace(from, to) with a one-character pattern: the first
\* occurrence only
ReplaceFirst(s, from, to) ==
    LET at == { k \in 1..Len(s) : s[k] = from } IN
    IF at = {} THEN s
    ELSE LET k == CHOOSE x \in at : \A y \in at : x <= y IN
         [s EXCEPT ![k] = to]

\* the longest prefix of s made of the characters of class
RECURSIVE PrefixOf(_, _)
PrefixOf(s, class) ==
    IF s # <<>> /\ Head(s) \in class
    THEN << Head(s) >> \o PrefixOf(Tail(s), class)
    ELSE <<>>

\* the longest suffix of s made of the characters of class
RECURSIVE SuffixOf(_, _)
SuffixOf(s, class) ==
    IF s # <<>> /\ Last(s) \in class
    THEN SuffixOf(SubSeq(s, 1, Len(s) - 1), class) \o << Last(s) >>
    ELSE <<>>

RECURSIVE DecimalValue(_)
DecimalValue(ds) ==
    IF ds = <<>> THEN 0
    ELSE 10 * DecimalValue(SubSeq(ds, 1, Len(ds) - 1)) + DigitVal(Last(ds))

\* parseInt(s, 10): the leading digits, NaN when there are none
parseInt(s) ==
    LET ds == PrefixOf(TrimStart(s), Digits) IN
    IF ds = <<>> THEN NaN ELSE DecimalValue(ds)

\* parseFloat(s), in tenths: leading digits, then an optional "." and digits
parseFloat(s) ==
    LET t == TrimStart(s)
        ds == PrefixOf(t, Digits)
        rest == SubSeq(t, Len(ds) + 1, Len(t))
        fs == IF rest # <<>> /\ Head(rest) = "." THEN PrefixOf(Tail(rest),
        Digits) ELSE <<>>
    IN IF ds = <<>> /\ fs = <<>> THEN NaN
       ELSE 10 * DecimalValue(ds) + (IF fs = <<>> THEN 0 ELSE DigitVal(fs[1]))

\* hours * 3600 + minutes * 60 + seconds, in tenths
TimeOf(hours, minutes, secondsTenths) ==
    IF IsNaN(hours) \/ IsNaN(minutes) \/ IsNaN(secondsTenths) THEN NaN
    ELSE hours * 3600 * 10 + minutes * 60 * 10 + secondsTenths

Returned(v) == [ok |-> TRUE, value |-> v, error |-> <<>>]

\* throw new Error(`Invalid ... timestamp format: ${timestamp}`)
Thrown(timestamp) == [ok |-> FALSE, value |-> NaN, error |-> timestamp]

parseVttTimestamp(timestamp) ==
    LET parts == SplitOn(Trim(timestamp), ":") IN
    IF Len(parts) = 3
    THEN Returned(TimeOf(parseInt(parts[1]), parseInt(parts[2]), parseFloat(parts[3])))
    ELSE IF Len(parts) = 2
    THEN Returned(TimeOf(0, parseInt(parts[1]), parseFloat(parts[2])))
    ELSE Thrown(timestamp)

parseSrtTimestamp(timestamp) ==
    LET normalized == ReplaceFirst(Trim(timestamp), ",", ".")
        parts == SplitOn(normalized, ":")
    IN IF Len(parts) # 3 THEN Thrown(timestamp)
       ELSE Returned(TimeOf(parseInt(parts[1]), parseInt(parts[2]), parseFloat(parts[3])))

TsParseVtt ==
    /\ TsFrame
    /\ pcTs = "input"
    /\ tsFormat = "vtt"
    /\ tsOut' = parseVttTimestamp(tsIn)
    /\ pcTs' = "done"
    /\ UNCHANGED << tsIn, tsFormat >>

TsParseSrt ==
    /\ TsFrame
    /\ pcTs = "input"
    /\ tsFormat = "srt"
    /\ tsOut' = parseSrtTimestamp(tsIn)
    /\ pcTs' = "done"
    /\ UNCHANGED << tsIn, tsFormat >>

TsIdle ==
    /\ tsIn = <<>>
    /\ tsFormat = "vtt"
    /\ tsOut = Returned(NaN)
    /\ pcTs = "idle"

TsAlphabet == {"0", "1", ":", ".", ",", "x"}

----------------------------------------------------------------------------
(* Caption parser: parseVtt and parseSrt                                    *)
(*                                                                          *)
(* A file is the sequence of its lines.  A line is                          *)
(*   [kind |-> "blank"]                       an empty line,                *)
(*   [kind |-> "header"]                      the line WEBVTT,              *)
(*   [kind |-> "arrow", start, end]           a line holding "-->", with    *)
(*                                            the text before and after it, *)
(*   [kind |-> "text", txt, marked]           any other line: txt is its    *)
(*       text with the markup tags removed and trimmed, marked says whether *)
(*       it holds <c> or an inline dd:dd time (hasInlineTimestamps).        *)

BlankLine == [kind |-> "blank"]

HeaderLine == [kind |-> "header"]

ArrowLine(a, b) == [kind |-> "arrow", start |-> a, end |-> b]

TextLine(t, m) == [kind |-> "text", txt |-> t, marked |-> m]

HasArrow(line) == line.kind = "arrow"

VttTimeChars == Digits \cup {":", "."}

SrtTimeChars == Digits \cup {":", ","}

\* line.match(/([class]+)\s*-->\s*([class]+)/): the two captures, or no match
TimestampMatch(line, class) ==
    LET m1 == SuffixOf(TrimEnd(line.start), class)
        m2 == PrefixOf(TrimStart(line.end), class)
    IN IF m1 = <<>> \/ m2 = <<>> THEN [matched |-> FALSE, m1 |-> <<>>, m2 |-> <<>>]
       ELSE [matched |-> TRUE, m1 |-> m1, m2 |-> m2]

Parsed(segs) == [ok |-> TRUE, segments |-> segs, error |-> <<>>]

ParseFailed(timestamp) == [ok |-> FALSE, segments |-> <<>>, error |-> timestamp]

\* parseVtt's inner `while`: collects the text lines of a cue from line k on;
\* gives the collected lines and the index the outer loop continues from
\* (the outer loop's closing i++ included)
RECURSIVE CollectVttText(_, _, _)
CollectVttText(lines, k, textLines) ==
    IF k > Len(lines) THEN << textLines, k + 1 >>
    ELSE IF lines[k].kind = "blank" THEN << textLines, k + 1 >>
    ELSE IF HasArrow(lines[k]) THEN << textLines, k >>
    ELSE IF lines[k].kind = "text" /\ lines[k].marked
         THEN CollectVttText(lines, k + 1, Append(textLines, lines[k].txt))
         ELSE CollectVttText(lines, k + 1, textLines)

\* a line's characters, as parseSrt joins them into a cue's text
LineText(line) ==
    CASE line.kind = "text" -> line.txt
      [] line.kind = "header" -> << "W", "E", "B", "V", "T", "T" >>
      [] line.kind = "arrow" -> line.start \o << " ", "-", "-", ">", " " >> \o line.end
      [] OTHER -> <<>>

\* parseVtt's cue loop from line k on
RECURSIVE ParseVttCues(_, _, _)
ParseVttCues(lines, k, segs) ==
    IF k > Len(lines) THEN Parsed(segs)
    ELSE LET line == lines[k] IN
         IF line.kind = "blank"
            \/ (~HasArrow(line) /\ k + 1 <= Len(lines) /\ HasArrow(lines[k + 1]))
         THEN ParseVttCues(lines, k + 1, segs)
         ELSE IF HasArrow(line)
         THEN LET m == TimestampMatch(line, VttTimeChars) IN
              IF m.matched
              THEN LET startTime == parseVttTimestamp(m.m1)
                       endTime == parseVttTimestamp(m.m2)
                   IN IF ~startTime.ok THEN ParseFailed(startTime.error)
                      ELSE IF ~endTime.ok THEN ParseFailed(endTime.error)
                      ELSE LET got == CollectVttText(lines, k + 1, <<>>)
                               text == Trim(JoinTexts(got[1]))
                           IN ParseVttCues(lines, got[2],
                                  IF text # <<>>
                                  THEN Append(segs, [text |-> text,
                                                     start_time |-> startTime.value,
                                                     end_time |-> endTime.value])
                                  ELSE segs)
              ELSE ParseVttCues(lines, k + 1, segs)
         ELSE ParseVttCues(lines, k + 1, segs)

\* the index after the first WEBVTT line, 1 when there is none
AfterHeader(lines) ==
    LET hs == { k \in 1..Len(lines) : lines[k].kind = "header" } IN
    IF hs = {} THEN 1 ELSE (CHOOSE k \in hs : \A m \in hs : k <= m) + 1

\* "Skip header metadata until first timestamp"
FirstArrowFrom(lines, k) ==
    LET as == { m \in k..Len(lines) : HasArrow(lines[m]) } IN
    IF as = {} THEN Len(lines) + 1 ELSE CHOOSE m \in as : \A n \in as : m <= n

parseVtt(lines) ==
    LET r == ParseVttCues(lines, FirstArrowFrom(lines, AfterHeader(lines)), <<>>) IN
    IF r.ok THEN Parsed(deduplicateVttSegments(r.segments)) ELSE r

\* content.trim().split(/\n\n+/), each block then split into lines: the runs
\* of lines between empty lines
RECURSIVE SrtBlocks(_, _, _)
SrtBlocks(lines, k, block) ==
    IF k > Len(lines) THEN (IF block = <<>> THEN <<>> ELSE << block >>)
    ELSE IF lines[k].kind = "blank"
    THEN (IF block = <<>> THEN <<>> ELSE << block >>) \o SrtBlocks(lines, k + 1, <<>>)
    ELSE SrtBlocks(lines, k + 1, Append(block, lines[k]))

\* parseSrt's `for (const block of blocks)` from block k on
RECURSIVE ParseSrtBlocks(_, _, _)
ParseSrtBlocks(blocks, k, segs) ==
    IF k > Len(blocks) THEN Parsed(segs)
    ELSE LET lines == blocks[k]
             as == { m \in 1..Len(lines) : HasArrow(lines[m]) }
         IN IF Len(lines) < 2 \/ as = {} THEN ParseSrtBlocks(blocks, k + 1, segs)
            ELSE LET timestampIdx == CHOOSE m \in as : \A n \in as : m <= n
                     m == TimestampMatch(lines[timestampIdx], SrtTimeChars)
                 IN IF ~m.matched THEN ParseSrtBlocks(blocks, k + 1, segs)
                    ELSE LET startTime == parseSrtTimestamp(m.m1)
                             endTime == parseSrtTimestamp(m.m2)
                         IN IF ~startTime.ok THEN ParseFailed(startTime.error)
                            ELSE IF ~endTime.ok THEN ParseFailed(endTime.error)
                            ELSE LET textLines == SubSeq(lines, timestampIdx + 1, Len(lines))
                                     text == Trim(JoinTexts([n \in 1..Len(textLines) |->
                                                                LineText(textLines[n])]))
                                 IN ParseSrtBlocks(blocks, k + 1,
                                        IF text # <<>>
                                        THEN Append(segs, [text |-> text,
                                                           start_time |-> startTime.value,
                                                           end_time |-> endTime.value])
                                        ELSE segs)

parseSrt(lines) == ParseSrtBlocks(SrtBlocks(lines, 1, <<>>), 1, <<>>)

ParseVttFile ==
    /\ ParseFrame
    /\ pcParse = "input"
    /\ fileFormat = "vtt"
    /\ parseOut' = parseVtt(fileLines)
    /\ pcParse' = "done"
    /\ UNCHANGED << fileLines, fileFormat >>

ParseSrtFile ==
    /\ ParseFrame
    /\ pcParse = "input"
    /\ fileFormat = "srt"
    /\ parseOut' = parseSrt(fileLines)
    /\ pcParse' = "done"
    /\ UNCHANGED << fileLines, fileFormat >>

ParseIdle ==
    /\ fileLines = <<>>
    /\ fileFormat = "vtt"
    /\ parseOut = Parsed(<<>>)
    /\ pcParse = "idle"

\* The lines files are made of: a plain and a marked text line, two good
\* timestamp lines (0:0:0 --> 0:0:1 and 0:0:1 --> 0:0:2, valid in both
\* grammars), one the pattern does not match, one with a single token and
\* one with an empty token.
T000 == << "0", ":", "0", ":", "0" >>

T001 == << "0", ":", "0", ":", "1" >>

T002 == << "0", ":", "0", ":", "2" >>

FileLineSet ==
    { BlankLine, HeaderLine,
      TextLine(<< "a" >>, FALSE), TextLine(<< "b" >>, TRUE),
      ArrowLine(T000, T001), ArrowLine(T001, T002),
      ArrowLine(<< "x" >>, T001),
      ArrowLine(<< "1" >>, T001),
      ArrowLine(<< ":", "0", ":", "1" >>, T002) }

----------------------------------------------------------------------------
(* Ingestion of one video: indexVideoLocal and indexVideoCloudflare         *)
(*                                                                          *)
(* stagesRun lists the transformation stages the job has invoked, in order. *)

\* groupWordsIntoSegments's loop from word k on
RECURSIVE GroupWords(_, _, _, _, _)
GroupWords(words, k, currentSegmentWords, currentStart, segs) ==
    IF k > Len(words)
    THEN IF currentSegmentWords # <<>> /\ Trim(JoinTexts(currentSegmentWords)) # <<>>
         THEN Append(segs, [text |-> Trim(JoinTexts(currentSegmentWords)),
                            start_time |-> currentStart,
                            end_time |-> Last(words).end])
         ELSE segs
    ELSE LET word == words[k]
             start == IF currentSegmentWords = <<>> THEN word.start ELSE currentStart
             collected == Append(currentSegmentWords, word.text)
         IN IF word.text # <<>> /\ Last(word.text) \in {".", "!", "?"}
            THEN GroupWords(words, k + 1, <<>>, 0,
                     IF Trim(JoinTexts(collected)) # <<>>
                     THEN Append(segs, [text |-> Trim(JoinTexts(collected)),
                                        start_time |-> start,
                                        end_time |-> word.end])
                     ELSE segs)
            ELSE GroupWords(words, k + 1, collected, start, segs)

groupWordsIntoSegments(result) ==
    IF Len(result.words) = 0
    THEN IF result.text # <<>>
         THEN << [text |-> Trim(result.text), start_time |-> 0, end_time |-> 0] >>
         ELSE <<>>
    ELSE GroupWords(result.words, 1, <<>>, 0, <<>>)

\* await getVideoInfo(videoId)
JobGetInfo ==
    /\ JobFrame
    /\ pcJob = "start"
    /\ pcJob' = "info"
    /\ UNCHANGED << chunkVars, parseVars, jobTarget, hasSubtitles, hasApiKey, sttResult,
                    jobSegments, stagesRun, jobResult >>

\* an external call (metadata, download, transcription service) throws: the
\* catch block reports it and the job returns false
JobExternalError ==
    /\ JobFrame
    /\ pcJob \in {"start", "info", "nosubs"}
    /\ pcJob' = "returned"
    /\ jobResult' = FALSE
    /\ UNCHANGED << chunkVars, parseVars, jobTarget, hasSubtitles, hasApiKey, sttResult,
                    jobSegments, stagesRun >>

\* await downloadSubtitles(videoId, tempDir): a path, or null
JobDownloadSubtitles ==
    /\ JobFrame
    /\ pcJob = "info"
    /\ pcJob' = IF hasSubtitles THEN "subs" ELSE "nosubs"
    /\ UNCHANGED << chunkVars, parseVars, jobTarget, hasSubtitles, hasApiKey, sttResult,
                    jobSegments, stagesRun, jobResult >>

\* segments = await parseSubtitles(subtitlePath), the grammar picked by the
\* file's suffix; a thrown timestamp error is caught and the job returns false
JobParse ==
    /\ JobFrame
    /\ pcJob = "subs"
    /\ LET r == IF fileFormat = "vtt" THEN parseVtt(fileLines) ELSE parseSrt(fileLines) IN
        /\ parseOut' = r
        /\ pcParse' = "done"
        /\ stagesRun' = stagesRun \o
              (IF fileFormat = "vtt" /\ r.ok THEN << "Parser", "Deduplicator" >>
               ELSE << "Parser" >>)
        /\ jobSegments' = r.segments
        /\ pcJob' = IF r.ok THEN "segments" ELSE "returned"
        /\ jobResult' = IF r.ok THEN jobResult ELSE FALSE
    /\ UNCHANGED << chunkVars, fileLines, fileFormat, jobTarget, hasSubtitles, hasApiKey,
                    sttResult >>

\* no subtitles and no ELEVENLABS_API_KEY: the video is skipped
JobSkipNoKey ==
    /\ JobFrame
    /\ pcJob = "nosubs"
    /\ ~hasApiKey
    /\ pcJob' = "returned"
    /\ jobResult' = FALSE
    /\ UNCHANGED << chunkVars, parseVars, jobTarget, hasSubtitles, hasApiKey, sttResult,
                    jobSegments, stagesRun >>

\* segments = await transcribeAudio(audioPath)
JobTranscribe ==
    /\ JobFrame
    /\ pcJob = "nosubs"
    /\ hasApiKey
    /\ jobSegments' = groupWordsIntoSegments(sttResult)
    /\ pcJob' = "segments"
    /\ UNCHANGED << chunkVars, parseVars, jobTarget, hasSubtitles, hasApiKey, sttResult,
                    stagesRun, jobResult >>

\* if (!segments || segments.length === 0) return false
JobNoTranscript ==
    /\ JobFrame
    /\ pcJob = "segments"
    /\ Len(jobSegments) = 0
    /\ pcJob' = "returned"
    /\ jobResult' = FALSE
    /\ UNCHANGED << chunkVars, parseVars, jobTarget, hasSubtitles, hasApiKey, sttResult,
                    jobSegments, stagesRun >>

\* const chunks = chunkTranscript(segments, videoInfo.title): the call, with
\* the default target and overlap; the chunker's own steps follow
JobChunk ==
    /\ JobFrame
    /\ pcJob = "segments"
    /\ Len(jobSegments) > 0
    /\ segments' = jobSegments
    /\ targetTokens' = DefaultTargetTokens
    /\ overlapPct' = DefaultOverlapPct
    /\ chunks' = <<>>
    /\ seq' = 0
    /\ currentSegments' = <<>>
    /\ currentTokenCount' = 0
    /\ overlapSegments' = <<>>
    /\ overlapTokenCount' = 0
    /\ i' = 1
    /\ pcChunk' = "loop"
    /\ stagesRun' = Append(stagesRun, "Chunker")
    /\ pcJob' = "chunking"
    /\ UNCHANGED << parseVars, jobTarget, hasSubtitles, hasApiKey, sttResult, jobSegments,
                    jobResult >>

\* after chunkTranscript returns: no chunks means failure; otherwise the
\* chunks are embedded and stored (local) or uploaded and indexed
\* (Cloudflare), which succeeds or fails
JobStore ==
    /\ JobFrame
    /\ pcJob = "chunking"
    /\ pcChunk = "done"
    /\ pcJob' = "returned"
    /\ \E stored \in BOOLEAN : jobResult' = (Len(chunks) > 0 /\ stored)
    /\ UNCHANGED << chunkVars, parseVars, jobTarget, hasSubtitles, hasApiKey, sttResult,
                    jobSegments, stagesRun >>

JobIdle ==
    /\ jobTarget = "local"
    /\ hasSubtitles = FALSE
    /\ hasApiKey = FALSE
    /\ sttResult = [text |-> <<>>, words |-> <<>>]
    /\ jobSegments = <<>>
    /\ stagesRun = <<>>
    /\ jobResult = FALSE
    /\ pcJob = "idle"

\* speech-to-text results: words "a" and "b." with a time slot each, or no
\* word timing and a text
SttWords(ws) ==
    [k \in 1..Len(ws) |-> [text |-> ws[k], start |-> 10 * k, end |-> 10 * k + 5]]

SttResults ==
    { [text |-> JoinTexts(ws), words |-> SttWords(ws)] :
        ws \in SeqUpTo({ << "a" >>, << "b", "." >> }, MaxWords) }
    \cup { [text |-> << "a" >>, words |-> <<>>] }

----------------------------------------------------------------------------
(* Retrieval: search (local store) and searchTranscripts (Cloudflare)       *)
(*                                                                          *)
(* Distances and scores count hundredths: ScoreOne is the score 1.          *)

\* the orderings of a finite set, as sequences
Orderings(S) ==
    { s \in [1..Cardinality(S) -> S] : \A a, b \in 1..Cardinality(S) : a # b => s[a] # s[b] }

\* the k nearest candidates: k chunk ids such that no left-out one is closer
Nearest(k) ==
    { S \in SUBSET (1..Len(candidates)) :
        /\ Cardinality(S) = IF k < Len(candidates) THEN k ELSE Len(candidates)
        /\ \A a \in S, b \in (1..Len(candidates)) \ S : candidates[a] <= candidates[b] }

\* Mutant: the query without its ORDER BY clause
Unordered(ids) == Orderings(ids)

\* ORDER BY distance: the rows by ascending distance (ties in any order)
OrderByDistance(ids) ==
    { s \in Orderings(ids) :
        \A k \in 1..(Len(s) - 1) : candidates[s[k]] <= candidates[s[k + 1]] }

\* searchChunks(db, queryEmbedding, limit): the rows the query can return
searchChunks(limit) ==
    UNION { { [k \in 1..Len(s) |-> [chunk_id |-> s[k], distance |-> candidates[s[k]]]] :
                s \in OrderByDistance(ids) } : ids \in Nearest(limit) }

\* search's loop over rawResults: score = 1 - row.distance
FormatLocal(rows) ==
    [k \in 1..Len(rows) |-> [chunk_id |-> rows[k].chunk_id,
                             score |-> ScoreOne - rows[k].distance]]

\* searchVectors: the top matches with the similarity Vectorize reports
\* (cosine similarity, 1 - distance), as a map from id to score
scoreMap(ids) == [id \in ids |-> ScoreOne - candidates[id]]

\* results.sort((a, b) => b.score - a.score): a stable sort, descending
RECURSIVE InsertByScore(_, _)
InsertByScore(sorted, r) ==
    IF sorted = <<>> THEN << r >>
    ELSE IF Head(sorted).score >= r.score
    THEN << Head(sorted) >> \o InsertByScore(Tail(sorted), r)
    ELSE << r >> \o sorted

RECURSIVE SortFrom(_, _, _)
SortFrom(rs, k, sorted) ==
    IF k > Len(rs) THEN sorted ELSE SortFrom(rs, k + 1, InsertByScore(sorted, rs[k]))

SortByScoreDesc(rs) == SortFrom(rs, 1, <<>>)

\* search(query, limit)
SearchLocal ==
    /\ SearchFrame
    /\ pcSearch = "call"
    /\ searchBackend = "local"
    /\ \E rows \in searchChunks(searchLimit) : searchResults' = FormatLocal(rows)
    /\ pcSearch' = "done"
    /\ UNCHANGED << candidates, searchBackend, searchLimit >>

\* searchTranscripts(env, query, limit): the D1 rows of the matched vectors
\* come back in any order and are sorted after formatting
SearchCloudflare ==
    /\ SearchFrame
    /\ pcSearch = "call"
    /\ searchBackend = "cloudflare"
    /\ \E ids \in Nearest(searchLimit) :
          \E rows \in Orderings(ids) :
              searchResults' = SortByScoreDesc(
                  [k \in 1..Len(rows) |-> [chunk_id |-> rows[k],
                                           score |-> scoreMap(ids)[rows[k]]]])
    /\ pcSearch' = "done"
    /\ UNCHANGED << candidates, searchBackend, searchLimit >>

SearchIdle ==
    /\ candidates = <<>>
    /\ searchBackend = "local"
    /\ searchLimit = 1
    /\ searchResults = <<>>
    /\ pcSearch = "idle"

\* distances a cosine index reports, in hundredths (0.05, 0.1, 0.4 and 1.5)
DistanceSet == {5, 10, 40, 150}

----------------------------------------------------------------------------
(* Display text of a ranked result: search (local store) and the text      *)
(* output of searchTranscripts (Cloudflare)                                 *)
(*                                                                          *)
(* Texts are sequences of characters.  The stored text of a chunk is the    *)
(* one chunkTranscript builds from the video title and the segment texts.   *)

\* the longest excerpt searchTranscripts prints: text.slice(0, 300)
ExcerptLength == 300

\* search: remove `${videoTitle}: ` if the text starts with it
StripTitlePrefix(text, title) ==
    LET titlePrefix == title \o << ":", " " >> IN
    IF StartsWith(text, titlePrefix) THEN Slice(text, Len(titlePrefix)) ELSE text

\* searchTranscripts: text.split('|').slice(1).join('|').trim() if the text
\* includes '|': what follows the first '|', trimmed
StripTitleMarker(text) ==
    IF Includes(text, << "|" >>)
    THEN Trim(Slice(text, IndexOf(text, << "|" >>) + 1))
    ELSE text

\* `${text.slice(0, 300)}${text.length > 300 ? '...' : ''}`
Excerpt(text) ==
    IF Len(text) > ExcerptLength
    THEN SubSeq(text, 1, ExcerptLength) \o << ".", ".", "." >>
    ELSE text

\* search(query, limit): the text field of a result
DisplayLocal ==
    /\ DisplayFrame
    /\ pcDisp = "call"
    /\ dispBackend = "local"
    /\ dispText' = StripTitlePrefix(dispStored, dispTitle)
    /\ pcDisp' = "done"
    /\ UNCHANGED << dispTitle, dispSegTexts, dispStored, dispBackend >>

\* searchTranscripts(env, query, limit): the excerpt of a result
DisplayCloudflare ==
    /\ DisplayFrame
    /\ pcDisp = "call"
    /\ dispBackend = "cloudflare"
    /\ dispText' = Excerpt(StripTitleMarker(dispStored))
    /\ pcDisp' = "done"
    /\ UNCHANGED << dispTitle, dispSegTexts, dispStored, dispBackend >>

DisplayIdle ==
    /\ dispTitle = <<>>
    /\ dispSegTexts = <<>>
    /\ dispStored = <<>>
    /\ dispBackend = "local"
    /\ dispText = <<>>
    /\ pcDisp = "idle"

\* video titles, and segment texts as the parsers leave them: trimmed, non-empty
TitleSet == TextsUpTo({"T", "|", ":", " "}, MaxTitleLen)

DisplaySegmentTexts == { << "a" >>, << "a", " ", "b" >>, << "|" >>, << "a", "|", "b" >> }

----------------------------------------------------------------------------
(* Embedding client: embedText and embedBatch, and the job that calls       *)
(* embedBatch (indexVideoLocal)                                             *)
(*                                                                          *)
(* Texts and embeddings are counted, not held.  A provider error is known   *)
(* by the markers its message contains.  embErrors and embSleeps record the *)
(* failed attempts and the delays (ms) of the provider request in progress. *)

RECURSIVE Pow2(_)
Pow2(n) == IF n = 0 THEN 1 ELSE 2 * Pow2(n - 1)

Min(a, b) == IF a < b THEN a ELSE b

\* the messages a failed provider call can carry
ProviderErrors ==
    { [rate |-> TRUE,  quota |-> FALSE, code429 |-> FALSE],
      [rate |-> FALSE, quota |-> TRUE,  code429 |-> FALSE],
      [rate |-> FALSE, quota |-> FALSE, code429 |-> TRUE],
      [rate |-> FALSE, quota |-> FALSE, code429 |-> FALSE] }

NoError == [rate |-> FALSE, quota |-> FALSE, code429 |-> FALSE, none |-> TRUE]

\* errorStr.includes('rate') || errorStr.includes('quota') || errorStr.includes('429')
Throttling(error) == error.rate \/ error.quota \/ error.code429

\* Mutant: one more re-attempt than MAX_RETRIES allows
RetryOnceMore(error, n) == Throttling(error) /\ n < MAX_RETRIES

\* the catch block's test for another attempt
RetryAllowed(error, n) == Throttling(error) /\ n < MAX_RETRIES - 1

\* texts.length === 0: embedBatch returns [] before it asks for the client
EmbedBatchEmpty ==
    /\ EmbedFrame
    /\ pcEmb = "call"
    /\ embKind = "batch"
    /\ embTexts = 0
    /\ pcEmb' = "returned"
    /\ UNCHANGED << embKind, embHasKey, embTexts, batchSize, batchIdx, attempt,
                    allEmbeddings, embErrors, embSleeps, embThrown, embStored,
                    embJobResult >>

\* getClient throws: GOOGLE_API_KEY is not set
EmbedNoKey ==
    /\ EmbedFrame
    /\ pcEmb = "call"
    /\ ~(embKind = "batch" /\ embTexts = 0)
    /\ ~embHasKey
    /\ embThrown' = [NoError EXCEPT !.none = FALSE]
    /\ pcEmb' = "thrown"
    /\ UNCHANGED << embKind, embHasKey, embTexts, batchSize, batchIdx, attempt,
                    allEmbeddings, embErrors, embSleeps, embStored, embJobResult >>

\* the client is there: the first attempt of the first request begins
EmbedEnter ==
    /\ EmbedFrame
    /\ pcEmb = "call"
    /\ ~(embKind = "batch" /\ embTexts = 0)
    /\ embHasKey
    /\ batchIdx' = 0
    /\ attempt' = 0
    /\ pcEmb' = "attempt"
    /\ UNCHANGED << embKind, embHasKey, embTexts, batchSize, allEmbeddings,
                    embErrors, embSleeps, embThrown, embStored, embJobResult >>

\* embedText: model.embedContent resolves; return result.embedding.values
EmbedTextSucceeds ==
    /\ EmbedFrame
    /\ pcEmb = "attempt"
    /\ embKind = "single"
    /\ allEmbeddings' = 1
    /\ pcEmb' = "returned"
    /\ UNCHANGED << embKind, embHasKey, embTexts, batchSize, batchIdx, attempt,
                    embErrors, embSleeps, embThrown, embStored, embJobResult >>

\* embedBatch: model.batchEmbedContents resolves; the batch's embeddings are
\* pushed, then either the next batch begins after BATCH_DELAY or all is
\* returned
EmbedBatchSucceeds ==
    /\ EmbedFrame
    /\ pcEmb = "attempt"
    /\ embKind = "batch"
    /\ allEmbeddings' = allEmbeddings + Min(batchSize, embTexts - batchIdx)
    /\ IF batchIdx + batchSize < embTexts
       THEN /\ batchIdx' = batchIdx + batchSize
            /\ attempt' = 0
            /\ embErrors' = <<>>
            /\ embSleeps' = <<>>
            /\ pcEmb' = "attempt"
       ELSE /\ pcEmb' = "returned"
            /\ UNCHANGED << batchIdx, attempt, embErrors, embSleeps >>
    /\ UNCHANGED << embKind, embHasKey, embTexts, batchSize, embThrown, embStored,
                    embJobResult >>

\* the catch block when another attempt is allowed: sleep, then continue
Retry(kind) ==
    /\ EmbedFrame
    /\ pcEmb = "attempt"
    /\ embKind = kind
    /\ \E error \in ProviderErrors :
          /\ RetryAllowed(error, attempt)
          /\ embErrors' = Append(embErrors, error)
    /\ embSleeps' = Append(embSleeps, RETRY_DELAY * Pow2(attempt))
    /\ attempt' = attempt + 1
    /\ UNCHANGED << embKind, embHasKey, embTexts, batchSize, batchIdx, allEmbeddings,
                    embThrown, embStored, embJobResult, pcEmb >>

\* the catch block otherwise: throw error
Fail(kind) ==
    /\ EmbedFrame
    /\ pcEmb = "attempt"
    /\ embKind = kind
    /\ \E error \in ProviderErrors :
          /\ ~RetryAllowed(error, attempt)
          /\ embErrors' = Append(embErrors, error)
          /\ embThrown' = [NoError EXCEPT !.rate = error.rate, !.quota = error.quota,
                                          !.code429 = error.code429, !.none = FALSE]
    /\ pcEmb' = "thrown"
    /\ UNCHANGED << embKind, embHasKey, embTexts, batchSize, batchIdx, attempt,
                    allEmbeddings, embSleeps, embStored, embJobResult >>

EmbedTextRetry == Retry("single")

EmbedTextFail == Fail("single")

EmbedBatchRetry == Retry("batch")

EmbedBatchFail == Fail("batch")

\* Mutant: the job stores what had been embedded before the failure
JobCatchStoresPartial ==
    /\ EmbedFrame
    /\ pcEmb = "thrown"
    /\ embKind = "batch"
    /\ embStored' = allEmbeddings
    /\ embJobResult' = "true"
    /\ pcEmb' = "done"
    /\ UNCHANGED << embKind, embHasKey, embTexts, batchSize, batchIdx, attempt,
                    allEmbeddings, embErrors, embSleeps, embThrown >>

\* indexVideoLocal after embedBatch returned: upsertVideo, then one
\* insertChunk and insertChunkEmbedding per chunk; return true
JobStoreEmbeddings ==
    /\ EmbedFrame
    /\ pcEmb = "returned"
    /\ embKind = "batch"
    /\ embTexts > 0
    /\ embStored' = embTexts
    /\ embJobResult' = "true"
    /\ pcEmb' = "done"
    /\ UNCHANGED << embKind, embHasKey, embTexts, batchSize, batchIdx, attempt,
                    allEmbeddings, embErrors, embSleeps, embThrown >>

\* indexVideoLocal's catch: the error is logged and the job returns false
JobCatch ==
    /\ EmbedFrame
    /\ pcEmb = "thrown"
    /\ embKind = "batch"
    /\ embJobResult' = "false"
    /\ pcEmb' = "done"
    /\ UNCHANGED << embKind, embHasKey, embTexts, batchSize, batchIdx, attempt,
                    allEmbeddings, embErrors, embSleeps, embThrown, embStored >>

EmbedIdle ==
    /\ embKind = "single"
    /\ embHasKey = FALSE
    /\ embTexts = 0
    /\ batchSize = 1
    /\ batchIdx = 0
    /\ attempt = 0
    /\ allEmbeddings = 0
    /\ embErrors = <<>>
    /\ embSleeps = <<>>
    /\ embThrown = NoError
    /\ embStored = 0
    /\ embJobResult = "none"
    /\ pcEmb = "idle"

----------------------------------------------------------------------------
(* Worker pool of the add command: runWithConcurrency                       *)
(*                                                                          *)
(* Items are numbered from 1 (the code's index + 1) and currentIndex counts *)
(* the items taken.  A job is in flight from the call of fn until its       *)
(* promise settles; fn (the ingestion job wrapped by add) resolves to true  *)
(* or false and never rejects.                                              *)

Max(a, b) == IF a > b THEN a ELSE b

\* Math.max(1, parseInt(options.concurrency, 10) || 1)
ParseConcurrency(option) == Max(1, IF IsNaN(option) \/ option = 0 THEN 1 ELSE option)

\* Mutant: one worker per item, whatever the concurrency
WorkerCountAllItems(c, n) == n

\* Array(Math.min(concurrency, items.length))
WorkerCount(c, n) == Min(c, n)

InFlight == { w \in 1..Len(workers) : workers[w].state = "running" }

\* what fn resolves to for an item: the item it was called with and whether
\* the job succeeded
FnOutcomes(item) == { [item |-> item, ok |-> o] : o \in {"true", "false"} }

Pending == [item |-> 0, ok |-> "pending"]

\* Mutant: the result is stored at the shared counter's value after the await
ResultIndexShared(w) == currentIndex

\* `const index = currentIndex++`, local to the worker's iteration
ResultIndex(w) == workers[w].item

\* the add command reads its --concurrency option
AddReadOption ==
    /\ PoolFrame
    /\ pcPool = "option"
    /\ concurrency' = ParseConcurrency(concurrencyOption)
    /\ pcPool' = "call"
    /\ UNCHANGED << concurrencyOption, items, currentIndex, workers, results, fnCalls >>

\* runWithConcurrency up to its await: the workers are created one after
\* the other, and each runs to its first await, taking the next item
PoolStart ==
    /\ PoolFrame
    /\ pcPool = "call"
    /\ LET w == WorkerCount(concurrency, items) IN
        /\ workers' = [k \in 1..w |->
                          IF k <= items THEN [state |-> "running", item |-> k]
                          ELSE [state |-> "finished", item |-> 0]]
        /\ currentIndex' = Min(w, items)
        /\ fnCalls' = [k \in 1..items |-> IF k <= w THEN 1 ELSE 0]
    /\ results' = [k \in 1..items |-> Pending]
    /\ pcPool' = "running"
    /\ UNCHANGED << concurrencyOption, concurrency, items >>

\* a worker's job settles while items remain: the result is stored and the
\* worker calls fn on the next item
WorkerTakesNext(w) ==
    /\ PoolFrame
    /\ pcPool = "running"
    /\ workers[w].state = "running"
    /\ currentIndex < items
    /\ \E outcome \in FnOutcomes(workers[w].item) :
          results' = [results EXCEPT ![ResultIndex(w)] = outcome]
    /\ workers' = [workers EXCEPT ![w].item = currentIndex + 1]
    /\ fnCalls' = [fnCalls EXCEPT ![currentIndex + 1] = @ + 1]
    /\ currentIndex' = currentIndex + 1
    /\ UNCHANGED << concurrencyOption, concurrency, items, pcPool >>

\* a worker's job settles and no item remains: the worker returns
WorkerFinishes(w) ==
    /\ PoolFrame
    /\ pcPool = "running"
    /\ workers[w].state = "running"
    /\ ~(currentIndex < items)
    /\ \E outcome \in FnOutcomes(workers[w].item) :
          results' = [results EXCEPT ![ResultIndex(w)] = outcome]
    /\ workers' = [workers EXCEPT ![w].state = "finished"]
    /\ UNCHANGED << concurrencyOption, concurrency, items, currentIndex, fnCalls, pcPool >>

\* await Promise.all(workers); return results
PoolResolve ==
    /\ PoolFrame
    /\ pcPool = "running"
    /\ InFlight = {}
    /\ pcPool' = "resolved"
    /\ UNCHANGED << concurrencyOption, concurrency, items, currentIndex, workers,
                    results, fnCalls >>

PoolIdle ==
    /\ concurrencyOption = 1
    /\ concurrency = 1
    /\ items = 0
    /\ currentIndex = 0
    /\ workers = <<>>
    /\ results = <<>>
    /\ fnCalls = <<>>
    /\ pcPool = "idle"

\* values of the --concurrency option after parseInt: a number, or NaN
ConcurrencyOptions == {NaN} \cup 0..MaxConcurrency

----------------------------------------------------------------------------
(* Cloudflare Worker: POST /api/index and DELETE /api/video/:id over D1,    *)
(* Vectorize and R2, and the uploads the command line makes to R2           *)
(*                                                                          *)
(* A chunk row is [id, video_id, vectorize_id]; the vectorize id            *)
(* `chunk_${chunkId}` is held as the chunk id, and 0 stands for null.  A    *)
(* vector is [id, video_id] (its metadata).  An R2 key is a pair            *)
(* << folder, video >>, and << >> stands for null.  Every awaited call of a *)
(* handler may throw: failAt numbers the call that does, and the handler    *)
(* answers 500 with the earlier calls' effects in place.                    *)

Videos == {"v1", "v2"}

NoVideoRow == [present |-> FALSE, r2_video_key |-> <<>>, r2_transcript_key |-> <<>>]

\* `videos/${videoId}.mp4` and `transcripts/${videoId}.json`
R2VideoKey(v) == << "videos", v >>

R2TranscriptKey(v) == << "transcripts", v >>

\* the row upsertVideo writes: the request's keys, or null for a missing key
VideoRowOf(v, withKeys) ==
    [present |-> TRUE,
     r2_video_key |-> IF withKeys THEN R2VideoKey(v) ELSE <<>>,
     r2_transcript_key |-> IF withKeys THEN R2TranscriptKey(v) ELSE <<>>]

\* the rows insertChunk and updateChunkVectorizeId leave for the first k chunks
InsertedChunks(v, k) ==
    { [id |-> nextChunkId + j, video_id |-> v, vectorize_id |-> nextChunkId + j] :
        j \in 0..(k - 1) }

\* vectorize.upsert: a vector with the same id is replaced
UpsertedVectors(new) ==
    { x \in vectors : \A y \in new : y.id # x.id } \cup new

\* handleIndexRequest: the calls are upsertChannel (1), upsertVideo (2),
\* generateEmbeddings (3), the insert loop (4, failing at its last chunk)
\* and upsertVectors (5); failAt = 6 when none throws
IndexEffect(v, n, withKeys, failAt) ==
    LET inserted == IF failAt > 4 THEN n ELSE IF failAt = 4 THEN n - 1 ELSE 0 IN
    /\ d1Channels' = IF failAt > 1 THEN d1Channels \cup {"channel"} ELSE d1Channels
    /\ d1Videos' = IF failAt > 2 THEN [d1Videos EXCEPT ![v] = VideoRowOf(v, withKeys)]
                   ELSE d1Videos
    /\ d1Chunks' = d1Chunks \cup InsertedChunks(v, inserted)
    /\ nextChunkId' = nextChunkId + inserted
    /\ vectors' = IF failAt > 5
                  THEN UpsertedVectors({ [id |-> c.vectorize_id, video_id |-> v] :
                                           c \in InsertedChunks(v, n) })
                  ELSE vectors
    /\ UNCHANGED r2Objects

\* POST /api/index answered 200
HandleIndexOk(v, n, withKeys) ==
    /\ StoreFrame
    /\ nextChunkId + n - 1 <= MaxChunkId
    /\ IndexEffect(v, n, withKeys, 6)
    /\ lastRequest' = [op |-> "index", video |-> v, status |-> 200]

\* POST /api/index answered 500
HandleIndexFails(v, n, withKeys, failAt) ==
    /\ StoreFrame
    /\ nextChunkId + n - 1 <= MaxChunkId
    /\ IndexEffect(v, n, withKeys, failAt)
    /\ lastRequest' = [op |-> "index", video |-> v, status |-> 500]

\* the vectorize ids handleDeleteVideo collects: those of the video's chunk
\* rows that are not null
VectorizeIdsOf(v) == { c.vectorize_id : c \in { d \in d1Chunks : d.video_id = v /\ d.vectorize_id # 0 } }

\* deleteVideoChunks: DELETE FROM chunks WHERE video_id = ?
deleteVideoChunks(v) == { c \in d1Chunks : c.video_id # v }

\* handleDeleteVideo for a video that has a row: the calls are the lookups
\* (1), deleteVectors (2), deleteVideoChunks (3), the DELETE of the video
\* row (4) and the two R2 deletes (5, 6); failAt = 7 when none throws
DeleteEffect(v, failAt) ==
    /\ vectors' = IF failAt > 2 THEN { x \in vectors : x.id \notin VectorizeIdsOf(v) }
                  ELSE vectors
    /\ d1Chunks' = IF failAt > 3 THEN deleteVideoChunks(v) ELSE d1Chunks
    /\ d1Videos' = IF failAt > 4 THEN [d1Videos EXCEPT ![v] = NoVideoRow] ELSE d1Videos
    /\ r2Objects' = (r2Objects \ (IF failAt > 5 THEN {d1Videos[v].r2_video_key} ELSE {}))
                        \ (IF failAt > 6 THEN {d1Videos[v].r2_transcript_key} ELSE {})
    /\ UNCHANGED << d1Channels, nextChunkId >>

\* DELETE /api/video/:id answered 404: getVideo finds no row
HandleDeleteNotFound(v) ==
    /\ StoreFrame
    /\ ~d1Videos[v].present
    /\ lastRequest' = [op |-> "delete", video |-> v, status |-> 404]
    /\ UNCHANGED << d1Channels, d1Videos, d1Chunks, nextChunkId, vectors, r2Objects >>

\* DELETE /api/video/:id answered 200
HandleDeleteOk(v) ==
    /\ StoreFrame
    /\ d1Videos[v].present
    /\ DeleteEffect(v, 7)
    /\ lastRequest' = [op |-> "delete", video |-> v, status |-> 200]

\* DELETE /api/video/:id answered 500
HandleDeleteFails(v, failAt) ==
    /\ StoreFrame
    /\ failAt = 1 \/ d1Videos[v].present
    /\ failAt = 2 => VectorizeIdsOf(v) # {}
    /\ failAt = 5 => d1Videos[v].r2_video_key # <<>>
    /\ failAt = 6 => d1Videos[v].r2_transcript_key # <<>>
    /\ IF failAt = 1
       THEN UNCHANGED << d1Channels, d1Videos, d1Chunks, nextChunkId, vectors, r2Objects >>
       ELSE DeleteEffect(v, failAt)
    /\ lastRequest' = [op |-> "delete", video |-> v, status |-> 500]

\* indexVideoCloudflare: the video and the transcript are uploaded to R2
\* before the index request is sent
CliUploadToR2(v) ==
    /\ StoreFrame
    /\ r2Objects' = r2Objects \cup {R2VideoKey(v), R2TranscriptKey(v)}
    /\ lastRequest' = [op |-> "upload", video |-> v, status |-> 200]
    /\ UNCHANGED << d1Channels, d1Videos, d1Chunks, nextChunkId, vectors >>

\* GET /api/videos: the ids of the video rows
ListedVideos == { v \in Videos : d1Videos[v].present }

\* the chunks a search can return: those whose vectorize id names a stored
\* vector and whose video row exists (getChunksByVectorizeIds joins videos)
SearchReachable ==
    { c \in d1Chunks : /\ \E x \in vectors : x.id = c.vectorize_id
                       /\ d1Videos[c.video_id].present }

\* an empty deployment
StoreIdle ==
    /\ d1Channels = {}
    /\ d1Videos = [v \in Videos |-> NoVideoRow]
    /\ d1Chunks = {}
    /\ nextChunkId = 1
    /\ vectors = {}
    /\ r2Objects = {}
    /\ lastRequest = [op |-> "none", video |-> "v1", status |-> 0]

----------------------------------------------------------------------------
(* Cloudflare Worker: POST /mcp, handleMCPRequest and handleMcpToolsCall    *)
(*                                                                          *)
(* A request body is [json, jsonrpc, id, method, tool, query, uri]: json is *)
(* "invalid" (request.json() throws), "null" (the JSON value null),         *)
(* "scalar" (another JSON value that is not an object) or "object"; a field *)
(* that is missing or of the wrong type is "absent".  A tool named          *)
(* show_video is called for a video id that is not indexed.  A response is  *)
(* [kind, id, code]: kind "jsonrpc" with code 0 for a result, kind "empty"  *)
(* for the body {}, kind "http500" for the error body of fetch's catch.     *)

NoResponse == [kind |-> "none", id |-> "null", code |-> 0]

jsonRpcSuccess(id) == [kind |-> "jsonrpc", id |-> id, code |-> 0]

jsonRpcError(id, code) == [kind |-> "jsonrpc", id |-> id, code |-> code]

\* body.id ?? null
IdOrNull(body) == IF body.id = "absent" THEN "null" ELSE body.id

handleMcpResourcesRead(id, body) ==
    IF body.uri = "absent" THEN jsonRpcError(id, -32602)
    ELSE IF body.uri = "ui://player" THEN jsonRpcSuccess(id)
    ELSE jsonRpcError(id, -32602)

handleMcpToolsCall(id, body, throws) ==
    IF body.tool = "absent" THEN jsonRpcError(id, -32602)
    ELSE IF body.tool = "search_transcripts"
         THEN IF body.query \in {"absent", ""} THEN jsonRpcError(id, -32602)
              ELSE IF throws THEN jsonRpcError(id, -32603)
              ELSE jsonRpcSuccess(id)
    ELSE IF body.tool \in {"list_indexed_channels", "get_stats"}
         THEN IF throws THEN jsonRpcError(id, -32603) ELSE jsonRpcSuccess(id)
    ELSE jsonRpcError(id, -32602)

handleMCPRequest(body, throws) ==
    IF body.json = "invalid" THEN jsonRpcError("null", -32700)
    ELSE IF body.json = "null" THEN [kind |-> "http500", id |-> "null", code |-> 0]
    ELSE IF body.jsonrpc # "2.0" THEN jsonRpcError(IdOrNull(body), -32600)
    ELSE IF body.method = "absent" THEN jsonRpcError(IdOrNull(body), -32600)
    ELSE LET id == IdOrNull(body) IN
         CASE body.method = "initialize" -> jsonRpcSuccess(id)
           [] body.method = "notifications/initialized" ->
                IF id # "null" THEN jsonRpcSuccess(id)
                ELSE [kind |-> "empty", id |-> "null", code |-> 0]
           [] body.method = "tools/list" -> jsonRpcSuccess(id)
           [] body.method = "tools/call" -> handleMcpToolsCall(id, body, throws)
           [] body.method = "ping" -> jsonRpcSuccess(id)
           [] body.method = "resources/list" -> jsonRpcSuccess(id)
           [] body.method = "resources/read" -> handleMcpResourcesRead(id, body)
           [] OTHER -> jsonRpcError(id, -32601)

McpMethods ==
    {"initialize", "notifications/initialized", "tools/list", "tools/call", "ping",
     "resources/list", "resources/read"}

McpTools == {"search_transcripts", "list_indexed_channels", "get_stats"}

NonObjectBody(json) ==
    [json |-> json, jsonrpc |-> "absent", id |-> "absent", method |-> "absent",
     tool |-> "absent", query |-> "absent", uri |-> "absent"]

McpBodies ==
    { NonObjectBody(j) : j \in {"invalid", "null", "scalar"} } \cup
    [json : {"object"}, jsonrpc : {"2.0", "1.0", "absent"}, id : {"absent", "id-1"},
     method : McpMethods \cup {"absent", "unknown/method"},
     tool : McpTools \cup {"absent", "show_video", "unknown_tool"},
     query : {"absent", "", "q"}, uri : {"absent", "ui://player", "ui://other"}]

\* fetch: a POST to /mcp (one request is followed from its arrival)
McpPost(body, throws) ==
    /\ mcpResponse = NoResponse
    /\ McpFrame
    /\ mcpBody' = body
    /\ mcpToolThrows' = throws
    /\ mcpResponse' = handleMCPRequest(body, throws)

McpIdle ==
    /\ mcpBody = NonObjectBody("invalid")
    /\ mcpToolThrows = FALSE
    /\ mcpResponse = NoResponse

----------------------------------------------------------------------------
(* Stores as a search sees them: search (local SQLite file) and             *)
(* searchTranscripts (D1 and Vectorize)                                     *)
(*                                                                          *)
(* The schema of the local store is the set of its tables, indexes and      *)
(* migrated columns; a store that was never initialised has none.           *)
(* localRows holds the ids of the chunk rows (with their vectors).          *)

BaseTables == {"channels", "videos", "chunks"}

BaseIndexes == {"idx_chunks_video_id", "idx_videos_channel_id"}

MigratedObjects == {"videos.video_path", "channels.avatar_url", "chunks_vec"}

\* initDb: CREATE TABLE / INDEX IF NOT EXISTS (a created videos table has
\* video_path), then the two column migrations, then the vector table
initDb(schema) ==
    LET created == schema \cup BaseTables \cup BaseIndexes
                     \cup (IF "videos" \in schema THEN {} ELSE {"videos.video_path"})
        withPath == IF "videos.video_path" \in created THEN created
                    ELSE created \cup {"videos.video_path"}
        withAvatar == IF "channels.avatar_url" \in withPath THEN withPath
                      ELSE withPath \cup {"channels.avatar_url"}
    IN IF "chunks_vec" \in withAvatar THEN withAvatar ELSE withAvatar \cup {"chunks_vec"}

\* the schemas a store file can have: none, or the tables of some release
LocalSchemas ==
    {{}} \cup { BaseTables \cup BaseIndexes \cup m : m \in SUBSET MigratedObjects }

\* search: embedText may throw before the store is opened; otherwise the
\* store is opened, initDb runs and searchChunks reads
SearchLocalStore(embedded) ==
    /\ ReadFrame
    /\ lastSearch = "none"
    /\ IF embedded
       THEN /\ localSchema' = initDb(localSchema)
            /\ lastSearch' = "local"
       ELSE /\ localSchema' = localSchema
            /\ lastSearch' = "local failed"
    /\ UNCHANGED << localRows, storeVars >>

\* searchTranscripts: generateEmbedding, searchVectors and
\* getChunksByVectorizeIds only read
SearchTranscriptsStore(ok) ==
    /\ ReadFrame
    /\ lastSearch = "none"
    /\ lastSearch' = IF ok THEN "cloudflare" ELSE "cloudflare failed"
    /\ UNCHANGED << localSchema, localRows, storeVars >>

\* the Worker's stores after v1 was indexed with one chunk
StoreIndexedOnce ==
    /\ d1Channels = {"channel"}
    /\ d1Videos = [v \in Videos |-> IF v = "v1" THEN VideoRowOf(v, TRUE) ELSE NoVideoRow]
    /\ d1Chunks = {[id |-> 1, video_id |-> "v1", vectorize_id |-> 1]}
    /\ nextChunkId = 2
    /\ vectors = {[id |-> 1, video_id |-> "v1"]}
    /\ r2Objects = {R2VideoKey("v1"), R2TranscriptKey("v1")}
    /\ lastRequest = [op |-> "index", video |-> "v1", status |-> 200]

ReadIdle ==
    /\ localSchema = {}
    /\ localRows = {}
    /\ lastSearch = "none"

----------------------------------------------------------------------------
(* Format detection: parseSubtitles                                         *)
(*                                                                          *)
(* A file name is the sequence of its parts between dots.  The content is   *)
(* the sequence of its lines, each known by its shape: "blank" (empty),     *)
(* "spaces" (white space only), "WEBVTT" (starts with the marker),          *)
(* "digits" (digits, then white space at most), "srt-time" (starts with     *)
(* dd:dd:dd,ddd), "vtt-time" (starts with dd:dd:dd.ddd) and "text".  The    *)
(* outcome lists the grammars applied and says whether the call threw.      *)

LineShapes == {"blank", "spaces", "WEBVTT", "digits", "srt-time", "vtt-time", "text"}

\* toLowerCase on a part of a file name
Lower(part) ==
    CASE part = "VTT" -> "vtt"
      [] part = "SRT" -> "srt"
      [] OTHER -> part

\* filePath.toLowerCase().split('.').pop()
SuffixOfPath(path) == Lower(path[Len(path)])

\* content.trim().startsWith('WEBVTT'): the first line that is not white
\* space starts with the marker
RECURSIVE StartsWithMarker(_)
StartsWithMarker(content) ==
    IF content = <<>> THEN FALSE
    ELSE IF content[1] \in {"blank", "spaces"} THEN StartsWithMarker(Tail(content))
    ELSE content[1] = "WEBVTT"

\* /^\d+\s*\n\d{2}:\d{2}:\d{2},\d{3}/m: a line of digits, then white space
\* (line ends included), a line end, and the timestamp at the start of a line
SrtPattern(content) ==
    \E k \in 1..Len(content), j \in 1..Len(content) :
        /\ k < j
        /\ content[k] = "digits"
        /\ content[j] = "srt-time"
        /\ \A n \in (k + 1)..(j - 1) : content[n] \in {"blank", "spaces"}

Applied(grammar) == [applied |-> << grammar >>, thrown |-> FALSE]

Unrecognized == [applied |-> << >>, thrown |-> TRUE]

parseSubtitles(path, content) ==
    IF SuffixOfPath(path) = "vtt" THEN Applied("vtt")
    ELSE IF SuffixOfPath(path) = "srt" THEN Applied("srt")
    ELSE IF StartsWithMarker(content) THEN Applied("vtt")
    ELSE IF SrtPattern(content) THEN Applied("srt")
    ELSE Unrecognized

SniffRun ==
    /\ SniffFrame
    /\ pcSniff = "input"
    /\ sniffOut' = parseSubtitles(sniffPath, sniffContent)
    /\ pcSniff' = "done"
    /\ UNCHANGED << sniffPath, sniffContent >>

SniffIdle ==
    /\ sniffPath = << "a" >>
    /\ sniffContent = << >>
    /\ sniffOut = [applied |-> << >>, thrown |-> FALSE]
    /\ pcSniff = "idle"

SniffPaths ==
    { << "a" >>, << "a", "vtt" >>, << "a", "VTT" >>, << "a", "srt" >>, << "a", "txt" >>,
      << "a", "vtt", "txt" >> }

----------------------------------------------------------------------------
(* Timestamp rendering: formatTimestamp (search module and Worker, the same *)
(* code)                                                                    *)
(*                                                                          *)
(* The input counts tenths of a second; the output is a text.               *)

DigitChar(d) ==
    CASE d = 0 -> "0" [] d = 1 -> "1" [] d = 2 -> "2" [] d = 3 -> "3" [] d = 4 -> "4"
      [] d = 5 -> "5" [] d = 6 -> "6" [] d = 7 -> "7" [] d = 8 -> "8" [] d = 9 -> "9"

\* String(n) for an integer n >= 0
RECURSIVE ToDecimal(_)
ToDecimal(n) ==
    IF n < 10 THEN << DigitChar(n) >>
    ELSE Append(ToDecimal(n \div 10), DigitChar(n % 10))

\* Mutant: no padding
PadStartNone(s) == s

\* s.padStart(2, '0')
PadStart2(s) == IF Len(s) < 2 THEN << "0" >> \o s ELSE s

formatTimestamp(tenths) ==
    LET totalSeconds == tenths \div 10
        hours == totalSeconds \div 3600
        minutes == (totalSeconds % 3600) \div 60
        secs == totalSeconds % 60
    IN IF hours > 0
       THEN ToDecimal(hours) \o << ":" >> \o PadStart2(ToDecimal(minutes))
              \o << ":" >> \o PadStart2(ToDecimal(secs))
       ELSE ToDecimal(minutes) \o << ":" >> \o PadStart2(ToDecimal(secs))

FormatRun ==
    /\ FmtFrame
    /\ pcFmt = "input"
    /\ fmtOut' = formatTimestamp(fmtIn)
    /\ pcFmt' = "done"
    /\ UNCHANGED fmtIn

FmtIdle ==
    /\ fmtIn = 0
    /\ fmtOut = << >>
    /\ pcFmt = "idle"

\* whole seconds around the changes of form and of field width
FormatBases == {0, 9, 59, 65, 599, 3599, 3661, 35999, 36059, 86399}

FormatInputs ==
    { 10 * (b + o) + f : b \in FormatBases, o \in 0..MaxFmtOffset, f \in {0, 5, 9} }

----------------------------------------------------------------------------
(* Cloudflare Worker: the protected routes, fetch with verifyApiKey         *)
(*                                                                          *)
(* env.API_KEY is a key or "" (not configured).  An Authorization header is *)
(* [present, scheme, spaces, key]: the scheme word, the number of white     *)
(* space characters after it and the rest of the header.                    *)

NoHeader == [present |-> FALSE, scheme |-> "", spaces |-> 0, key |-> ""]

Header(scheme, spaces, key) ==
    [present |-> TRUE, scheme |-> scheme, spaces |-> spaces, key |-> key]

\* /^Bearer\s+(.+)$/i
BearerMatch(header) ==
    /\ header.scheme \in {"Bearer", "bearer", "BEARER"}
    /\ header.spaces >= 1
    /\ header.key # ""

\* Mutant: the provided key is not compared
VerifyFormatOnly(header, key) ==
    IF key = "" THEN 0
    ELSE IF ~header.present THEN 401
    ELSE IF ~BearerMatch(header) THEN 401
    ELSE 0

\* verifyApiKey: 0 stands for null (the request may proceed)
verifyApiKey(header, key) ==
    IF key = "" THEN 0
    ELSE IF ~header.present THEN 401
    ELSE IF ~BearerMatch(header) THEN 401
    ELSE IF header.key # key THEN 401
    ELSE 0

\* fetch: POST /api/index
FetchIndex(header, v, n, withKeys, failAt) ==
    /\ AuthFrame
    /\ authHeader' = header
    /\ UNCHANGED apiKey
    /\ IF verifyApiKey(header, apiKey) # 0
       THEN /\ lastRequest' = [op |-> "index", video |-> v, status |-> 401]
            /\ UNCHANGED << d1Channels, d1Videos, d1Chunks, nextChunkId, vectors, r2Objects >>
       ELSE /\ nextChunkId + n - 1 <= MaxAuthChunkId
            /\ IndexEffect(v, n, withKeys, failAt)
            /\ lastRequest' = [op |-> "index", video |-> v,
                               status |-> IF failAt = 6 THEN 200 ELSE 500]

\* fetch: DELETE /api/video/:id
FetchDelete(header, v, failAt) ==
    /\ AuthFrame
    /\ authHeader' = header
    /\ UNCHANGED apiKey
    /\ IF verifyApiKey(header, apiKey) # 0
       THEN /\ lastRequest' = [op |-> "delete", video |-> v, status |-> 401]
            /\ UNCHANGED << d1Channels, d1Videos, d1Chunks, nextChunkId, vectors, r2Objects >>
       ELSE IF ~d1Videos[v].present /\ failAt # 1
       THEN /\ lastRequest' = [op |-> "delete", video |-> v, status |-> 404]
            /\ UNCHANGED << d1Channels, d1Videos, d1Chunks, nextChunkId, vectors, r2Objects >>
       ELSE /\ failAt = 2 => VectorizeIdsOf(v) # {}
            /\ failAt = 5 => d1Videos[v].r2_video_key # <<>>
            /\ failAt = 6 => d1Videos[v].r2_transcript_key # <<>>
            /\ IF failAt = 1
               THEN UNCHANGED << d1Channels, d1Videos, d1Chunks, nextChunkId, vectors,
                                 r2Objects >>
               ELSE DeleteEffect(v, failAt)
            /\ lastRequest' = [op |-> "delete", video |-> v,
                               status |-> IF failAt = 7 THEN 200 ELSE 500]

AuthIdle ==
    /\ apiKey = ""
    /\ authHeader = NoHeader

AuthHeaders ==
    { NoHeader, Header("Bearer", 1, "k1"), Header("bearer", 2, "k1"), Header("Bearer", 1, "k2"),
      Header("Basic", 1, "k1"), Header("Bearer", 0, "k1") }

----------------------------------------------------------------------------
(* Specifications *)

InitChunk ==
    /\ \E toks \in SeqUpTo(1..MaxTok, MaxSegs), t \in TargetSet, p \in PctSet :
          ChunkStart(SegmentsOf(toks), t, p)
    /\ DedupIdle
    /\ NormIdle
    /\ TsIdle
    /\ ParseIdle
    /\ JobIdle
    /\ SearchIdle
    /\ DisplayIdle
    /\ EmbedIdle
    /\ PoolIdle
    /\ StoreIdle
    /\ McpIdle
    /\ ReadIdle
    /\ SniffIdle
    /\ FmtIdle
    /\ AuthIdle

NextChunk == ChunkOversized \/ ChunkClose \/ ChunkAdd \/ ChunkFinal

SpecChunk == InitChunk /\ [][NextChunk]_vars

InitDedup ==
    /\ \E texts \in SeqUpTo(CaptionTexts, MaxDedupSegs) :
          dedupIn = TimedSegments(texts)
    /\ dedupOnce = <<>>
    /\ dedupTwice = <<>>
    /\ pcDedup = "input"
    /\ ChunkIdle
    /\ NormIdle
    /\ TsIdle
    /\ ParseIdle
    /\ JobIdle
    /\ SearchIdle
    /\ DisplayIdle
    /\ EmbedIdle
    /\ PoolIdle
    /\ StoreIdle
    /\ McpIdle
    /\ ReadIdle
    /\ SniffIdle
    /\ FmtIdle
    /\ AuthIdle

NextDedup == DedupRun \/ DedupRerun

SpecDedup == InitDedup /\ [][NextDedup]_vars

InitNorm ==
    /\ normIn \in SeqUpTo(RawSegments, MaxNormSegs)
    /\ minDuration \in MinDurationSet
    /\ mergeThreshold \in MergeThresholdSet
    /\ normOut = <<>>
    /\ pcNorm = "input"
    /\ ChunkIdle
    /\ DedupIdle
    /\ TsIdle
    /\ ParseIdle
    /\ JobIdle
    /\ SearchIdle
    /\ DisplayIdle
    /\ EmbedIdle
    /\ PoolIdle
    /\ StoreIdle
    /\ McpIdle
    /\ ReadIdle
    /\ SniffIdle
    /\ FmtIdle
    /\ AuthIdle

NextNorm == NormRun

SpecNorm == InitNorm /\ [][NextNorm]_vars

InitTs ==
    /\ tsIn \in TextsUpTo(TsAlphabet, MaxTsLen)
    /\ tsFormat \in {"vtt", "srt"}
    /\ tsOut = Returned(NaN)
    /\ pcTs = "input"
    /\ ChunkIdle
    /\ DedupIdle
    /\ NormIdle
    /\ ParseIdle
    /\ JobIdle
    /\ SearchIdle
    /\ DisplayIdle
    /\ EmbedIdle
    /\ PoolIdle
    /\ StoreIdle
    /\ McpIdle
    /\ ReadIdle
    /\ SniffIdle
    /\ FmtIdle
    /\ AuthIdle

NextTs == TsParseVtt \/ TsParseSrt

SpecTs == InitTs /\ [][NextTs]_vars

InitParse ==
    /\ fileLines \in SeqUpTo(FileLineSet, MaxLines)
    /\ fileFormat \in {"vtt", "srt"}
    /\ parseOut = Parsed(<<>>)
    /\ pcParse = "input"
    /\ ChunkIdle
    /\ DedupIdle
    /\ NormIdle
    /\ TsIdle
    /\ JobIdle
    /\ SearchIdle
    /\ DisplayIdle
    /\ EmbedIdle
    /\ PoolIdle
    /\ StoreIdle
    /\ McpIdle
    /\ ReadIdle
    /\ SniffIdle
    /\ FmtIdle
    /\ AuthIdle

NextParse == ParseVttFile \/ ParseSrtFile

SpecParse == InitParse /\ [][NextParse]_vars

InitIngest ==
    /\ jobTarget \in {"local", "cloudflare"}
    /\ hasSubtitles \in BOOLEAN
    /\ hasApiKey \in BOOLEAN
    /\ IF hasSubtitles
       THEN /\ fileLines \in SeqUpTo(FileLineSet, MaxJobLines)
            /\ fileFormat \in {"vtt", "srt"}
            /\ sttResult = [text |-> <<>>, words |-> <<>>]
       ELSE /\ fileLines = <<>>
            /\ fileFormat = "vtt"
            /\ sttResult \in SttResults
    /\ parseOut = Parsed(<<>>)
    /\ pcParse = "idle"
    /\ jobSegments = <<>>
    /\ stagesRun = <<>>
    /\ jobResult = FALSE
    /\ pcJob = "start"
    /\ ChunkIdle
    /\ DedupIdle
    /\ NormIdle
    /\ TsIdle
    /\ SearchIdle
    /\ DisplayIdle
    /\ EmbedIdle
    /\ PoolIdle
    /\ StoreIdle
    /\ McpIdle
    /\ ReadIdle
    /\ SniffIdle
    /\ FmtIdle
    /\ AuthIdle

\* With the default target of 800 tokens the short transcripts of this
\* specification never fill a chunk: of the chunker's steps only the plain
\* push and the final emission occur.
NextIngest ==
    \/ JobGetInfo \/ JobExternalError \/ JobDownloadSubtitles \/ JobParse
    \/ JobSkipNoKey \/ JobTranscribe \/ JobNoTranscript \/ JobChunk
    \/ ChunkAdd \/ ChunkFinal
    \/ JobStore

SpecIngest == InitIngest /\ [][NextIngest]_vars

InitSearch ==
    /\ candidates \in SeqUpTo(DistanceSet, MaxCandidates)
    /\ searchBackend \in {"local", "cloudflare"}
    /\ searchLimit \in 1..MaxCandidates
    /\ searchResults = <<>>
    /\ pcSearch = "call"
    /\ ChunkIdle
    /\ DedupIdle
    /\ NormIdle
    /\ TsIdle
    /\ ParseIdle
    /\ JobIdle
    /\ DisplayIdle
    /\ EmbedIdle
    /\ PoolIdle
    /\ StoreIdle
    /\ McpIdle
    /\ ReadIdle
    /\ SniffIdle
    /\ FmtIdle
    /\ AuthIdle

NextSearch == SearchLocal \/ SearchCloudflare

SpecSearch == InitSearch /\ [][NextSearch]_vars

InitDisplay ==
    /\ dispTitle \in TitleSet
    /\ dispSegTexts \in SeqUpTo(DisplaySegmentTexts, MaxDisplaySegs) \ { <<>> }
    /\ dispStored = ChunkTextOf(dispTitle, dispSegTexts)
    /\ dispBackend \in {"local", "cloudflare"}
    /\ dispText = <<>>
    /\ pcDisp = "call"
    /\ ChunkIdle
    /\ DedupIdle
    /\ NormIdle
    /\ TsIdle
    /\ ParseIdle
    /\ JobIdle
    /\ SearchIdle
    /\ EmbedIdle
    /\ PoolIdle
    /\ StoreIdle
    /\ McpIdle
    /\ ReadIdle
    /\ SniffIdle
    /\ FmtIdle
    /\ AuthIdle

NextDisplay == DisplayLocal \/ DisplayCloudflare

SpecDisplay == InitDisplay /\ [][NextDisplay]_vars

InitMerge ==
    /\ normIn \in SeqUpTo(MergeSegments, MaxMergeSegs)
    /\ minDuration \in MinDurationSet
    /\ mergeThreshold \in MergeThresholdSet
    /\ normOut = <<>>
    /\ pcNorm = "input"
    /\ ChunkIdle
    /\ DedupIdle
    /\ TsIdle
    /\ ParseIdle
    /\ JobIdle
    /\ SearchIdle
    /\ DisplayIdle
    /\ EmbedIdle
    /\ PoolIdle
    /\ StoreIdle
    /\ McpIdle
    /\ ReadIdle
    /\ SniffIdle
    /\ FmtIdle
    /\ AuthIdle

SpecMerge == InitMerge /\ [][NextNorm]_vars

InitEmbed ==
    /\ embKind \in {"single", "batch"}
    /\ embHasKey \in BOOLEAN
    /\ embTexts \in (IF embKind = "single" THEN {1} ELSE 0..MaxEmbTexts)
    /\ batchSize \in (IF embKind = "single" THEN {1} ELSE 1..MaxBatchSize)
    /\ batchIdx = 0
    /\ attempt = 0
    /\ allEmbeddings = 0
    /\ embErrors = <<>>
    /\ embSleeps = <<>>
    /\ embThrown = NoError
    /\ embStored = 0
    /\ embJobResult = "none"
    /\ pcEmb = "call"
    /\ ChunkIdle
    /\ DedupIdle
    /\ NormIdle
    /\ TsIdle
    /\ ParseIdle
    /\ JobIdle
    /\ SearchIdle
    /\ DisplayIdle
    /\ PoolIdle
    /\ StoreIdle
    /\ McpIdle
    /\ ReadIdle
    /\ SniffIdle
    /\ FmtIdle
    /\ AuthIdle

NextEmbed ==
    \/ EmbedBatchEmpty
    \/ EmbedNoKey
    \/ EmbedEnter
    \/ EmbedTextSucceeds
    \/ EmbedTextRetry
    \/ EmbedTextFail
    \/ EmbedBatchSucceeds
    \/ EmbedBatchRetry
    \/ EmbedBatchFail
    \/ JobStoreEmbeddings
    \/ JobCatch

SpecEmbed == InitEmbed /\ [][NextEmbed]_vars

\* every awaited provider call and every sleep settles
SpecEmbedLive == SpecEmbed /\ WF_vars(NextEmbed)

InitPool ==
    /\ concurrencyOption \in ConcurrencyOptions
    /\ concurrency = 1
    /\ items \in 0..MaxVideos
    /\ currentIndex = 0
    /\ workers = <<>>
    /\ results = <<>>
    /\ fnCalls = <<>>
    /\ pcPool = "option"
    /\ ChunkIdle
    /\ DedupIdle
    /\ NormIdle
    /\ TsIdle
    /\ ParseIdle
    /\ JobIdle
    /\ SearchIdle
    /\ DisplayIdle
    /\ EmbedIdle
    /\ StoreIdle
    /\ McpIdle
    /\ ReadIdle
    /\ SniffIdle
    /\ FmtIdle
    /\ AuthIdle

NextPool ==
    \/ AddReadOption
    \/ PoolStart
    \/ \E w \in 1..Len(workers) : WorkerTakesNext(w)
    \/ \E w \in 1..Len(workers) : WorkerFinishes(w)
    \/ PoolResolve

SpecPool == InitPool /\ [][NextPool]_vars

InitStore ==
    /\ StoreIdle
    /\ ChunkIdle
    /\ DedupIdle
    /\ NormIdle
    /\ TsIdle
    /\ ParseIdle
    /\ JobIdle
    /\ SearchIdle
    /\ DisplayIdle
    /\ EmbedIdle
    /\ PoolIdle
    /\ McpIdle
    /\ ReadIdle
    /\ SniffIdle
    /\ FmtIdle
    /\ AuthIdle

NextStore ==
    \/ \E v \in Videos : CliUploadToR2(v)
    \/ \E v \in Videos, n \in 1..MaxRequestChunks, withKeys \in BOOLEAN :
          HandleIndexOk(v, n, withKeys)
    \/ \E v \in Videos, n \in 1..MaxRequestChunks, withKeys \in BOOLEAN, failAt \in 1..5 :
          HandleIndexFails(v, n, withKeys, failAt)
    \/ \E v \in Videos : HandleDeleteNotFound(v)
    \/ \E v \in Videos : HandleDeleteOk(v)
    \/ \E v \in Videos, failAt \in 1..6 : HandleDeleteFails(v, failAt)

SpecStore == InitStore /\ [][NextStore]_vars

InitMcp ==
    /\ McpIdle
    /\ ChunkIdle
    /\ DedupIdle
    /\ NormIdle
    /\ TsIdle
    /\ ParseIdle
    /\ JobIdle
    /\ SearchIdle
    /\ DisplayIdle
    /\ EmbedIdle
    /\ PoolIdle
    /\ StoreIdle
    /\ ReadIdle
    /\ SniffIdle
    /\ FmtIdle
    /\ AuthIdle

NextMcp == \E body \in McpBodies, throws \in BOOLEAN : McpPost(body, throws)

SpecMcp == InitMcp /\ [][NextMcp]_vars

InitRead ==
    /\ localSchema \in LocalSchemas
    /\ localRows \in SUBSET (1..MaxLocalRows)
    /\ localSchema = {} => localRows = {}
    /\ lastSearch = "none"
    /\ StoreIdle \/ StoreIndexedOnce
    /\ ChunkIdle
    /\ DedupIdle
    /\ NormIdle
    /\ TsIdle
    /\ ParseIdle
    /\ JobIdle
    /\ SearchIdle
    /\ DisplayIdle
    /\ EmbedIdle
    /\ PoolIdle
    /\ McpIdle
    /\ SniffIdle
    /\ FmtIdle
    /\ AuthIdle

NextRead ==
    \/ \E embedded \in BOOLEAN : SearchLocalStore(embedded)
    \/ \E ok \in BOOLEAN : SearchTranscriptsStore(ok)

SpecRead == InitRead /\ [][NextRead]_vars

InitSniff ==
    /\ sniffPath \in SniffPaths
    /\ sniffContent \in SeqUpTo(LineShapes, MaxSniffLines)
    /\ sniffOut = [applied |-> << >>, thrown |-> FALSE]
    /\ pcSniff = "input"
    /\ ChunkIdle
    /\ DedupIdle
    /\ NormIdle
    /\ TsIdle
    /\ ParseIdle
    /\ JobIdle
    /\ SearchIdle
    /\ DisplayIdle
    /\ EmbedIdle
    /\ PoolIdle
    /\ StoreIdle
    /\ McpIdle
    /\ ReadIdle
    /\ FmtIdle
    /\ AuthIdle

NextSniff == SniffRun

SpecSniff == InitSniff /\ [][NextSniff]_vars

InitFmt ==
    /\ fmtIn \in FormatInputs
    /\ fmtOut = << >>
    /\ pcFmt = "input"
    /\ ChunkIdle
    /\ DedupIdle
    /\ NormIdle
    /\ TsIdle
    /\ ParseIdle
    /\ JobIdle
    /\ SearchIdle
    /\ DisplayIdle
    /\ EmbedIdle
    /\ PoolIdle
    /\ StoreIdle
    /\ McpIdle
    /\ ReadIdle
    /\ SniffIdle
    /\ AuthIdle

NextFmt == FormatRun

SpecFmt == InitFmt /\ [][NextFmt]_vars

InitAuth ==
    /\ apiKey \in {"", "k1"}
    /\ authHeader = NoHeader
    /\ StoreIdle \/ StoreIndexedOnce
    /\ ChunkIdle
    /\ DedupIdle
    /\ NormIdle
    /\ TsIdle
    /\ ParseIdle
    /\ JobIdle
    /\ SearchIdle
    /\ DisplayIdle
    /\ EmbedIdle
    /\ PoolIdle
    /\ McpIdle
    /\ ReadIdle
    /\ SniffIdle
    /\ FmtIdle

NextAuth ==
    \/ \E header \in AuthHeaders, v \in Videos, n \in 1..MaxRequestChunks,
          withKeys \in BOOLEAN, failAt \in 1..6 : FetchIndex(header, v, n, withKeys, failAt)
    \/ \E header \in AuthHeaders, v \in Videos, failAt \in 1..7 : FetchDelete(header, v, failAt)

SpecAuth == InitAuth /\ [][NextAuth]_vars

----------------------------------------------------------------------------
(* Properties of the chunker *)

RECURSIVE TokSum(_)
TokSum(idx) == IF idx = <<>> THEN 0 ELSE segTokens(Head(idx)) + TokSum(Tail(idx))

SuffixFrom(s, j) == SubSeq(s, j, Len(s))

\* a chunk made of one segment that alone exceeds the target
AloneOversized(c) == Len(c.segs) = 1 /\ segTokens(c.segs[1]) > targetTokens

\* the carry the overlap rule asks for: the longest suffix within the overlap
\* budget, or the last segment alone when even that exceeds the budget
ExpectedCarry(s) ==
    LET fits == { j \in 1..Len(s) : TokSum(SuffixFrom(s, j)) <= overlapTokens } IN
    IF fits = {} THEN << Last(s) >>
    ELSE SuffixFrom(s, CHOOSE j \in fits : \A m \in fits : j <= m)

\* C1: every chunk's summed segment token count is <= target, except a chunk
\* that consists of exactly one segment whose own token count exceeds target.
C1_ChunkWithinTarget ==
    \A k \in 1..Len(chunks) :
        TokSum(chunks[k].segs) <= targetTokens \/ AloneOversized(chunks[k])

\* C6: a segment whose token count exceeds target is emitted as a chunk that
\* contains that segment alone, wherever it occurs among its neighbours.
C6_OversizedSegmentAlone ==
    \A k \in 1..Len(chunks) :
        \A m \in 1..Len(chunks[k].segs) :
            segTokens(chunks[k].segs[m]) > targetTokens => chunks[k].segs = << chunks[k].segs[m] >>

\* C7: whenever a chunk is closed because the next segment would exceed the
\* target, the next chunk begins with a non-empty trailing run of the closed
\* chunk's segments: the longest suffix whose summed token count is within
\* overlapTokens, or exactly the last segment when that alone exceeds it;
\* the first segment after that run is the one that did not fit.
CarriedInto(c, nextSegs) ==
    LET carry == ExpectedCarry(c.segs) IN
    /\ carry # <<>>
    /\ IsPrefix(carry, nextSegs)
    /\ Len(nextSegs) > Len(carry)
    /\ nextSegs[Len(carry) + 1] = Last(c.segs) + 1

C7_OverlapCarry ==
    /\ \A k \in 1..(Len(chunks) - 1) :
          ~AloneOversized(chunks[k]) => CarriedInto(chunks[k], chunks[k + 1].segs)
    /\ (pcChunk = "loop" /\ chunks # <<>> /\ ~AloneOversized(Last(chunks)))
          => CarriedInto(Last(chunks), currentSegments)

\* a finished run in which a closed chunk handed two or more segments on, and
\* another in which it handed on a last segment that alone exceeds the budget
C7_Witness ==
    /\ pcChunk = "done"
    /\ \E k \in 1..(Len(chunks) - 1) :
          /\ ~AloneOversized(chunks[k])
          /\ Len(ExpectedCarry(chunks[k].segs)) >= 2
    /\ \E k \in 1..(Len(chunks) - 1) :
          /\ ~AloneOversized(chunks[k])
          /\ TokSum(ExpectedCarry(chunks[k].segs)) > overlapTokens

\* C13: the chunks of one chunkTranscript call carry seq 0, 1, 2, ... in
\* emission order, with no gap and no repeat (the k-th chunk has seq = k),
\* also when oversized segments are emitted as their own chunks.
C13_SeqContiguous ==
    /\ \A k \in 1..Len(chunks) : chunks[k].seq = k - 1
    /\ pcChunk \in {"loop", "done"} => seq = (IF pcChunk = "done" /\ currentSegments # <<>>
                                            THEN Len(chunks) - 1 ELSE Len(chunks))

\* a finished call that emitted an oversized segment alone between two other
\* chunks
C13_Witness ==
    /\ pcChunk = "done"
    /\ Len(chunks) >= 3
    /\ \E k \in 2..(Len(chunks) - 1) : AloneOversized(chunks[k])

\* C29: chunking loses and reorders nothing: every input segment is in at
\* least one chunk, and the segments of each chunk are a contiguous run of
\* the input, in input order, that starts no earlier in the input than the
\* previous chunk's run.
C29_ChunksCoverInOrder ==
    /\ \A k \in 1..Len(chunks) :
          /\ chunks[k].segs # <<>>
          /\ \A m \in 1..(Len(chunks[k].segs) - 1) :
                chunks[k].segs[m + 1] = chunks[k].segs[m] + 1
    /\ \A k \in 1..(Len(chunks) - 1) : chunks[k + 1].segs[1] >= chunks[k].segs[1]
    /\ pcChunk = "done" =>
          \A n \in 1..Len(segments) :
              \E k \in 1..Len(chunks) : \E m \in 1..Len(chunks[k].segs) : chunks[k].segs[m] = n

\* a finished call over three or more segments whose last chunk begins with
\* a segment carried over from the chunk before it
C29_Witness ==
    /\ pcChunk = "done"
    /\ Len(segments) >= 3
    /\ Len(chunks) >= 2
    /\ Last(chunks).segs[1] \in { chunks[Len(chunks) - 1].segs[m] :
                                    m \in 1..Len(chunks[Len(chunks) - 1].segs) }
    /\ Len(Last(chunks).segs) >= 2

----------------------------------------------------------------------------
(* Properties of the deduplicator *)

\* C2: running the deduplicator on its own output changes nothing:
\* dedup(dedup(S)) equals dedup(S) in length, texts and times.
C2_DedupIdempotent == pcDedup = "twice" => dedupTwice = dedupOnce

\* the text of the input segment before the k-th, as it came in
PrecedingText(k) == IF k = 1 THEN <<>> ELSE dedupIn[k - 1].text

\* the positions at which q occurs in t, counted from 1
Occurrences(t, q) == { p \in 1..(Len(t) - Len(q) + 1) : SubSeq(t, p, p + Len(q) - 1) = q }

\* what is left of the k-th input text: the trimmed rest after the preceding
\* text when it starts with it, else the trimmed rest after its first
\* occurrence, else the whole text
Remaining(k) ==
    LET t == dedupIn[k].text
        q == PrecedingText(k)
        occ == Occurrences(t, q)
    IN  IF k = 1 \/ occ = {} THEN t
        ELSE LET first == CHOOSE p \in occ : \A r \in occ : p <= r IN
             Trim(SubSeq(t, first + Len(q), Len(t)))

Emitted == { k \in 1..Len(dedupIn) : Remaining(k) # <<>> }

\* the j-th emitted input position, in input order
EmittedAt(j) == CHOOSE k \in Emitted : Cardinality({ m \in Emitted : m < k }) = j - 1

\* C14: each input segment is compared against the original, unstripped text
\* of the segment before it (emitted or not); it is emitted, with its times
\* unchanged and in input order, exactly when its remaining text is non-empty,
\* and carries that remaining text.
C14_DedupStep ==
    pcDedup \in {"once", "twice"} =>
        /\ Len(dedupOnce) = Cardinality(Emitted)
        /\ \A j \in 1..Len(dedupOnce) :
              dedupOnce[j] = [text       |-> Remaining(EmittedAt(j)),
                              start_time |-> dedupIn[EmittedAt(j)].start_time,
                              end_time   |-> dedupIn[EmittedAt(j)].end_time]

\* three captions: the second repeats the first and is dropped, the third
\* is cut after the dropped one's text and trimmed
C14_Witness ==
    /\ pcDedup = "once"
    /\ Len(dedupIn) = 3
    /\ Emitted = {1, 3}
    /\ Len(Remaining(3)) < Len(dedupIn[3].text) - Len(dedupIn[2].text)

----------------------------------------------------------------------------
(* Properties of the normaliser *)

\* C3: every segment returned by normalizeSegments, for any input segments
\* (unordered or overlapping times included) and any minDuration and
\* mergeThreshold, has start_time < end_time and non-empty trimmed text.
C3_NormalizedSegmentsValid ==
    pcNorm = "done" =>
        \A k \in 1..Len(normOut) :
            /\ normOut[k].start_time < normOut[k].end_time
            /\ Trim(normOut[k].text) # <<>>

Duration(seg) == seg.end_time - seg.start_time

\* C15: merging cascades until no mergeable pair is left: the normaliser's
\* output has no adjacent segments a, b with duration(a) < minDuration and
\* b.start_time - a.end_time <= mergeThreshold.
C15_NoMergeablePairLeft ==
    pcNorm = "done" =>
        \A k \in 1..(Len(normOut) - 1) :
            ~(/\ Duration(normOut[k]) < minDuration
              /\ normOut[k + 1].start_time - normOut[k].end_time <= mergeThreshold)

\* three non-blank segments merged into one by a cascade
C15_Witness ==
    /\ pcNorm = "done"
    /\ Len(normIn) = 3
    /\ \A k \in 1..3 : CleanText(normIn[k].text) # <<>>
    /\ Len(normOut) = 1

\* the cleaned, non-empty input texts in input order
RECURSIVE CleanedTexts(_)
CleanedTexts(segs) ==
    IF segs = <<>> THEN <<>>
    ELSE LET t == Trim(CollapseWhitespace(Head(segs).text)) IN
         IF t = <<>> THEN CleanedTexts(Tail(segs))
         ELSE << t >> \o CleanedTexts(Tail(segs))

IsSuffix(q, t) == Len(q) <= Len(t) /\ SubSeq(t, Len(t) - Len(q) + 1, Len(t)) = q

\* C16: merging never reorders, drops or duplicates text: the space-joined
\* output texts equal the space-joined cleaned non-empty input texts in input
\* order, and the last accumulated segment is always emitted, even if short.
C16_MergeKeepsText ==
    pcNorm = "done" =>
        LET cleaned == CleanedTexts(normIn) IN
        /\ JoinTexts([k \in 1..Len(normOut) |-> normOut[k].text]) = JoinTexts(cleaned)
        /\ cleaned # <<>> =>
              /\ normOut # <<>>
              /\ IsSuffix(Last(cleaned), Last(normOut).text)

\* a merging run that emits a merged segment and then its last accumulated
\* segment, which is still short
C16_Witness ==
    /\ pcNorm = "done"
    /\ minDuration > 0
    /\ Len(normIn) = 3
    /\ Len(normOut) = 2
    /\ Len(CleanedTexts(normIn)) = 3
    /\ Duration(Last(normOut)) < minDuration

----------------------------------------------------------------------------
(* Properties of timestamp parsing *)

\* the colon-separated token counts a grammar allows
AllowedCounts(format) == IF format = "vtt" THEN {2, 3} ELSE {3}

\* the tokens of a timestamp as the grammar's parser reads them, and whether
\* each parses as a number (the last as a float, the others as integers)
TsTokens(timestamp, format) ==
    SplitOn(IF format = "vtt" THEN Trim(timestamp)
            ELSE ReplaceFirst(Trim(timestamp), ",", "."), ":")

TokensNumeric(parts) ==
    \A k \in 1..Len(parts) :
        IF k = Len(parts) THEN ~IsNaN(parseFloat(parts[k])) ELSE ~IsNaN(parseInt(parts[k]))

\* C9: timestamp parsing fails, carrying the offending string, whenever the
\* colon-separated token count is not allowed by the grammar or any token
\* does not parse as a number; it never returns a non-numeric time.
C9_TimestampErrors ==
    pcTs = "done" =>
        LET parts == TsTokens(tsIn, tsFormat) IN
        /\ (Len(parts) \notin AllowedCounts(tsFormat) \/ ~TokensNumeric(parts))
              => (~tsOut.ok /\ tsOut.error = tsIn)
        /\ tsOut.ok => ~IsNaN(tsOut.value)

----------------------------------------------------------------------------
(* Properties of the caption parser *)

\* a timestamp of the grammar: two or three (format A) or three (format B)
\* colon-separated tokens of digits, the last with an optional fraction
\* after the grammar's decimal separator
AllDigits(t) == t # <<>> /\ \A k \in 1..Len(t) : t[k] \in Digits

ValidSeconds(t, sep) ==
    LET p == SplitOn(t, sep) IN
    /\ Len(p) \in {1, 2}
    /\ \A k \in 1..Len(p) : AllDigits(p[k])

ValidTimestamp(t, format) ==
    LET parts == SplitOn(Trim(t), ":") IN
    /\ Len(parts) \in AllowedCounts(format)
    /\ \A k \in 1..(Len(parts) - 1) : AllDigits(parts[k])
    /\ ValidSeconds(Last(parts), IF format = "vtt" THEN "." ELSE ",")

TimestampValue(t, format) ==
    IF format = "vtt" THEN parseVttTimestamp(t).value ELSE parseSrtTimestamp(t).value

\* well-formed cues: a timestamp line with start < end followed by one line
\* of non-empty text, cues separated by an empty line and not overlapping
GoodCue(c, format) ==
    /\ c[1].kind = "arrow" /\ c[2].kind = "text"
    /\ ValidTimestamp(c[1].start, format) /\ ValidTimestamp(c[1].end, format)
    /\ TimestampValue(c[1].start, format) < TimestampValue(c[1].end, format)
    /\ c[2].txt # <<>>

GoodCues(format) == { c \in FileLineSet \X FileLineSet : GoodCue(c, format) }

CueLists(format) ==
    { cs \in SeqUpTo(GoodCues(format), (MaxLines + 1) \div 3) :
        /\ cs # <<>>
        /\ \A k \in 1..(Len(cs) - 1) :
              TimestampValue(cs[k][1].end, format) <= TimestampValue(cs[k + 1][1].start, format) }

RECURSIVE RenderCues(_)
RenderCues(cs) ==
    IF Len(cs) = 1 THEN << cs[1][1], cs[1][2] >>
    ELSE << cs[1][1], cs[1][2], BlankLine >> \o RenderCues(Tail(cs))

\* the cue lists the file is a rendering of (with the WEBVTT header and an
\* empty line in front for format A, or without)
CuesOfFile ==
    { cs \in CueLists(fileFormat) :
        \/ fileLines = RenderCues(cs)
        \/ fileFormat = "vtt" /\ fileLines = << HeaderLine, BlankLine >> \o RenderCues(cs) }

\* C4: parsing a caption file (format A or format B) that contains N
\* well-formed, non-overlapping cues with non-empty text returns exactly N
\* segments, in source order, each with start_time < end_time.
C4_ParserRoundTrip ==
    pcParse = "done" =>
        \A cs \in CuesOfFile :
            /\ parseOut.ok
            /\ Len(parseOut.segments) = Len(cs)
            /\ \A k \in 1..Len(cs) :
                  /\ parseOut.segments[k].start_time = TimestampValue(cs[k][1].start, fileFormat)
                  /\ parseOut.segments[k].end_time = TimestampValue(cs[k][1].end, fileFormat)
                  /\ parseOut.segments[k].start_time < parseOut.segments[k].end_time

\* the raw timestamps of the file that are not timestamps of its grammar
MalformedTimestamps ==
    { t \in UNION { { fileLines[k].start, fileLines[k].end } :
                      k \in { n \in 1..Len(fileLines) : HasArrow(fileLines[n]) } } :
        ~ValidTimestamp(t, fileFormat) }

\* C8: if any timestamp in a caption file (either grammar) is malformed,
\* parsing fails carrying the raw offending string and returns no segments:
\* a cue with a malformed timestamp is never skipped while the remaining
\* cues are returned.
C8_MalformedTimestampAborts ==
    (pcParse = "done" /\ MalformedTimestamps # {}) =>
        /\ ~parseOut.ok
        /\ parseOut.error \in MalformedTimestamps
        /\ parseOut.segments = <<>>

----------------------------------------------------------------------------
(* Properties of the ingestion job *)

\* C5: in every ingestion run the stages execute in the order Parser,
\* Deduplicator (format-A input only), Normalizer, Chunker: the Chunker is
\* never invoked on a segment sequence that has not first passed through the
\* Normalizer.
C5_NormalizerBeforeChunker ==
    \A k \in 1..Len(stagesRun) :
        stagesRun[k] = "Chunker" => \E j \in 1..(k - 1) : stagesRun[j] = "Normalizer"

----------------------------------------------------------------------------
(* Properties of retrieval *)

\* C10: for any set of candidates, supplied in any order, the result list
\* returned by a search is sorted by score in non-increasing order.
C10_ResultsSortedByScore ==
    pcSearch = "done" =>
        \A k \in 1..(Len(searchResults) - 1) :
            searchResults[k].score >= searchResults[k + 1].score

\* a finished search over candidates stored in another order than by score:
\* three results with falling scores, the best one not the first stored
C10_Witness ==
    /\ pcSearch = "done"
    /\ Len(searchResults) = 3
    /\ searchResults[1].score > searchResults[2].score
    /\ searchResults[2].score > searchResults[3].score
    /\ searchResults[1].chunk_id # 1
    /\ candidates[1] > candidates[2]

\* C11: every ranked result's score lies in [0,1], for every distance or
\* similarity value the vector index can report.
C11_ScoreInUnitInterval ==
    pcSearch = "done" =>
        \A k \in 1..Len(searchResults) :
            searchResults[k].score >= 0 /\ searchResults[k].score <= ScoreOne

----------------------------------------------------------------------------
(* Properties of the display text *)

\* C12: for every chunk text the chunker produces as "{title} | " followed by
\* the space-joined segment texts, the display text of a ranked result is
\* exactly the joined segment text, the title marker removed.
C12_DisplayTextIsSegmentText ==
    pcDisp = "done" => dispText = JoinTexts(dispSegTexts)

----------------------------------------------------------------------------
(* Properties of the embedding client *)

EmbedSettled == pcEmb \in {"returned", "thrown", "done"}

\* the provider attempts made for the request in progress or just settled
ProviderAttempts ==
    Len(embErrors) + (IF EmbedSettled /\ embThrown = NoError /\ embTexts > 0 THEN 1 ELSE 0)

EmbedRetriesBounded ==
    /\ ProviderAttempts <= MAX_RETRIES
    /\ pcEmb = "attempt" => Len(embErrors) < MAX_RETRIES
    /\ \A k \in 1..Len(embErrors) :
          (k < Len(embErrors) \/ pcEmb = "attempt" \/ embThrown = NoError)
              => Throttling(embErrors[k])
    /\ IsPrefix(embSleeps, << 1000, 2000 >>)
    /\ Len(embSleeps) = Len(embErrors) - (IF embThrown # NoError /\ embErrors # <<>> THEN 1 ELSE 0)

\* C17: for each embedding request (one text or one batch) the client makes
\* at most MAX_RETRIES = 3 provider attempts, re-attempts only after a
\* throttling error, waits RETRY_DELAY * 2^attempt (1 s, then 2 s) before each
\* re-attempt, and always ends with a result or a thrown error.
C17_BoundedRetries == []EmbedRetriesBounded /\ <>EmbedSettled

\* the second batch of a call gives up after three throttled attempts and
\* both waits
C17_Witness ==
    /\ pcEmb = "thrown"
    /\ embKind = "batch"
    /\ batchIdx > 0
    /\ Len(embErrors) = MAX_RETRIES
    /\ embSleeps = << 1000, 2000 >>

\* C18: a permanent embedding failure (a non-throttling error, or throttling
\* that lasts through the last allowed attempt) is rethrown without further
\* retry and is never turned into an empty or partial embedding result: the
\* call returns only with one embedding per text, and a job whose embedding
\* failed stores nothing and fails.
C18_PermanentFailureSurfaced ==
    /\ \A k \in 1..Len(embErrors) :
          (~Throttling(embErrors[k]) \/ k = MAX_RETRIES)
              => /\ k = Len(embErrors)
                 /\ pcEmb \in {"thrown", "done"}
                 /\ embThrown = [rate |-> embErrors[k].rate, quota |-> embErrors[k].quota,
                                 code429 |-> embErrors[k].code429, none |-> FALSE]
    /\ pcEmb = "returned" => (embThrown = NoError /\ allEmbeddings = embTexts)
    /\ (pcEmb = "done" /\ embThrown # NoError) => (embJobResult = "false" /\ embStored = 0)
    /\ (pcEmb = "done" /\ embThrown = NoError) => (embJobResult = "true" /\ embStored = embTexts)

\* a job whose first batch was embedded and whose second batch met a
\* non-throttling error: it has failed and stored nothing
C18_Witness ==
    /\ pcEmb = "done"
    /\ embKind = "batch"
    /\ allEmbeddings > 0
    /\ embErrors # <<>>
    /\ ~Throttling(Last(embErrors))
    /\ embJobResult = "false"
    /\ embStored = 0

----------------------------------------------------------------------------
(* Properties of the worker pool *)

\* C19: during an add run over n videos with concurrency option c, at no
\* time are more than min(max(1, c), n) ingestion jobs in flight, under any
\* interleaving of job completions.
C19_InFlightBounded ==
    LET c == IF IsNaN(concurrencyOption) THEN 1 ELSE concurrencyOption IN
    Cardinality(InFlight) <= Min(Max(1, c), items)

\* two workers share three videos: one job has settled, its worker has taken
\* the third video, and two jobs are in flight
C19_Witness ==
    /\ pcPool = "running"
    /\ concurrencyOption = 2
    /\ items = 3
    /\ currentIndex = 3
    /\ Cardinality(InFlight) = 2
    /\ \E k \in 1..items : results[k] # Pending

\* C30: runWithConcurrency calls fn exactly once for every item, under any
\* interleaving of the workers' completions (never twice, and once by the
\* time it resolves), and when it resolves results[i] is the outcome of
\* items[i] for every index i.
C30_EachItemOnce ==
    /\ \A k \in 1..Len(fnCalls) : fnCalls[k] <= 1
    /\ pcPool = "resolved" =>
          /\ Len(fnCalls) = items
          /\ Len(results) = items
          /\ \A k \in 1..items : fnCalls[k] = 1 /\ results[k].item = k

\* three videos were shared by two workers and the call has resolved
C30_Witness ==
    /\ pcPool = "resolved"
    /\ items = 3
    /\ concurrency = 2
    /\ \A k \in 1..items : results[k].item = k

----------------------------------------------------------------------------
(* Properties of the Cloudflare stores *)

\* nothing of video v is left in any store
GoneFromEveryStore(v) ==
    /\ ~d1Videos[v].present
    /\ \A c \in d1Chunks : c.video_id # v
    /\ \A x \in vectors : x.video_id # v
    /\ R2VideoKey(v) \notin r2Objects
    /\ R2TranscriptKey(v) \notin r2Objects
    /\ v \notin ListedVideos
    /\ \A c \in SearchReachable : c.video_id # v

\* C20: after DELETE /api/video/:id succeeds for an indexed video, the video
\* is gone from every store (no video row, no chunk rows, no vectors, no R2
\* objects, not listed, not found by search), and the rows, chunks and
\* vectors of every other video are unchanged.
C20_DeleteRemovesVideo ==
    [][\A v \in Videos :
          lastRequest' = [op |-> "delete", video |-> v, status |-> 200]
          => /\ GoneFromEveryStore(v)'
             /\ \A u \in Videos \ {v} :
                   /\ d1Videos'[u] = d1Videos[u]
                   /\ { c \in d1Chunks' : c.video_id = u } = { c \in d1Chunks : c.video_id = u }
                   /\ { x \in vectors' : x.video_id = u } = { x \in vectors : x.video_id = u }]_vars

----------------------------------------------------------------------------
(* Properties of the /mcp endpoint *)

\* the error code the response to a request must carry, 0 for a result
ClaimedCode(body, throws) ==
    IF body.json = "invalid" THEN -32700
    ELSE IF body.json # "object" \/ body.jsonrpc # "2.0" \/ body.method = "absent" THEN -32600
    ELSE IF body.method \notin McpMethods THEN -32601
    ELSE IF body.method = "tools/call"
         THEN IF body.tool \in {"absent", "unknown_tool"} THEN -32602
              ELSE IF body.tool = "search_transcripts" /\ body.query \in {"absent", ""} THEN -32602
              ELSE IF body.tool = "show_video" \/ throws THEN -32603
              ELSE 0
    ELSE IF body.method = "resources/read" /\ body.uri # "ui://player" THEN -32602
    ELSE 0

\* C21: every POST to /mcp is answered with one JSON-RPC 2.0 response whose
\* id is the request's id and whose error code is -32700 for a body that
\* is not valid JSON, -32600 for a wrong jsonrpc version or a method that is
\* not a string, -32601 for an unknown method, -32602 for invalid
\* parameters (missing or unknown tool name, empty search query) and -32603
\* for a tool that fails in execution (show_video of a video that is not
\* indexed).
C21_McpAnswersJsonRpc ==
    mcpResponse # NoResponse =>
        /\ mcpResponse.kind = "jsonrpc"
        /\ mcpResponse.id = IdOrNull(mcpBody)
        /\ mcpResponse.code = ClaimedCode(mcpBody, mcpToolThrows)

----------------------------------------------------------------------------
(* Properties of search as a reader *)

\* C22: running a search mutates no store: the channel, video, chunk and
\* vector data and the schema are the same before and after the call,
\* whether or not the store was initialised beforehand.
C22_SearchMutatesNothing ==
    [][lastSearch' # lastSearch =>
          /\ localSchema' = localSchema
          /\ localRows' = localRows
          /\ UNCHANGED storeVars]_vars

----------------------------------------------------------------------------
(* Properties of format detection *)

\* the grammar format detection must pick: by the suffix of the file name,
\* else by a leading marker, else by a numeric line with a format-B
\* timestamp on the next line; "none" when nothing matches
ExpectedGrammar(path, content) ==
    LET suffix == IF Len(path) > 1 THEN Lower(path[Len(path)]) ELSE "" IN
    IF suffix = "vtt" THEN "vtt"
    ELSE IF suffix = "srt" THEN "srt"
    ELSE IF \E k \in 1..Len(content) :
               /\ content[k] = "WEBVTT"
               /\ \A n \in 1..(k - 1) : content[n] \in {"blank", "spaces"}
         THEN "vtt"
    ELSE IF \E k \in 1..(Len(content) - 1) :
               content[k] = "digits" /\ content[k + 1] = "srt-time"
         THEN "srt"
    ELSE "none"

\* C23: parseSubtitles picks the grammar by the file-name suffix (vtt gives
\* format A, srt format B); for another suffix it sniffs the content (a
\* leading WEBVTT marker gives A, a numeric line immediately followed by a
\* format-B timestamp gives B); when neither matches it fails and returns
\* no segments, and in every other case exactly one grammar is applied.
C23_FormatDetection ==
    pcSniff = "done" =>
        IF ExpectedGrammar(sniffPath, sniffContent) = "none"
        THEN sniffOut = [applied |-> << >>, thrown |-> TRUE]
        ELSE sniffOut = [applied |-> << ExpectedGrammar(sniffPath, sniffContent) >>,
                         thrown |-> FALSE]

----------------------------------------------------------------------------
(* Properties of timestamp rendering *)

\* the fields of a rendered timestamp, read back as numbers
FieldsOf(text) == [k \in 1..Len(SplitOn(text, ":")) |-> DecimalValue(SplitOn(text, ":")[k])]

\* C24: for every non-negative number of seconds s, formatTimestamp renders
\* floor(s) as H:MM:SS exactly when s >= 3600 and as M:SS otherwise, with
\* seconds (and, in the hour form, minutes) zero-padded to two digits, so
\* that the rendered fields recombine to floor(s).
C24_FormatTimestamp ==
    pcFmt = "done" =>
        LET parts == SplitOn(fmtOut, ":")
            n == Len(parts)
            f == FieldsOf(fmtOut)
        IN /\ \A k \in 1..n : AllDigits(parts[k])
           /\ n = (IF fmtIn >= 36000 THEN 3 ELSE 2)
           /\ \A k \in 2..n : Len(parts[k]) = 2 /\ f[k] < 60
           /\ (IF n = 3 THEN 3600 * f[1] + 60 * f[2] + f[3] ELSE 60 * f[1] + f[2])
                 = fmtIn \div 10

\* 3661 seconds are rendered 1:01:01
C24_Witness ==
    /\ pcFmt = "done"
    /\ fmtIn = 36610
    /\ fmtOut = << "1", ":", "0", "1", ":", "0", "1" >>

----------------------------------------------------------------------------
(* Properties of the protected routes *)

\* the header is `Bearer <API_KEY>`
CarriesApiKey(header, key) ==
    /\ header.present
    /\ header.scheme \in {"Bearer", "bearer", "BEARER"}
    /\ header.spaces >= 1
    /\ header.key = key

\* C25: when API_KEY is configured, a POST /api/index or DELETE
\* /api/video/:id request without an Authorization header of the form
\* "Bearer <API_KEY>" is answered 401 and changes nothing in D1, Vectorize
\* or R2.
C25_UnauthorizedChangesNothing ==
    [][(apiKey # "" /\ ~CarriesApiKey(authHeader', apiKey))
         => /\ lastRequest'.status = 401
            /\ UNCHANGED << d1Channels, d1Videos, d1Chunks, nextChunkId, vectors, r2Objects >>]_vars

\* a request with a wrong key was rejected while a video is indexed
C25_Witness ==
    /\ apiKey = "k1"
    /\ authHeader = Header("Bearer", 1, "k2")
    /\ lastRequest = [op |-> "delete", video |-> "v1", status |-> 401]
    /\ d1Videos["v1"].present

\* the chunk rows of video v in a chunk table
ChunksOf(table, v) == { c \in table : c.video_id = v }

\* C26: indexing the same video again through POST /api/index leaves
\* exactly the chunks and vectors of the later request for that video: none
\* of the video's earlier chunk rows or vectors is still stored or
\* reachable by search, so the counts do not grow with repeated indexing.
C26_ReindexReplaces ==
    [][\A v \in Videos :
          lastRequest' = [op |-> "index", video |-> v, status |-> 200]
          => /\ ChunksOf(d1Chunks', v) \cap ChunksOf(d1Chunks, v) = {}
             /\ ChunksOf(vectors', v) \cap ChunksOf(vectors, v) = {}
             /\ ChunksOf(SearchReachable', v) \cap ChunksOf(d1Chunks, v) = {}]_vars

\* C27: after any sequence of completed index and delete requests the
\* vector index and the chunk table agree: the vectorize_id of every chunk
\* row names a stored vector, and the id of every stored vector is the
\* vectorize_id of exactly one chunk row.
C27_VectorsAgreeWithChunks ==
    /\ \A c \in d1Chunks : \E x \in vectors : x.id = c.vectorize_id
    /\ \A x \in vectors : Cardinality({ c \in d1Chunks : c.vectorize_id = x.id }) = 1

\* C28: an index or re-index attempt that reports failure leaves the
\* video's stored state as it was before the attempt: the video is not
\* left recorded as indexed with no or only some of its chunks, and the
\* chunks it had before are still present.
C28_FailedIndexChangesNothing ==
    [][\A v \in Videos :
          lastRequest' = [op |-> "index", video |-> v, status |-> 500]
          => /\ d1Videos'[v] = d1Videos[v]
             /\ ChunksOf(d1Chunks', v) = ChunksOf(d1Chunks, v)
             /\ ChunksOf(vectors', v) = ChunksOf(vectors, v)]_vars

====
